---- MODULE Spec2Model ----
(***************************************************************************)
(* SNAKE_Engine: resource registries, render batching and flush, object    *)
(* lifecycle.  Pointers are modelled as integer handles; 0 is nullptr.     *)
(***************************************************************************)
EXTENDS Integers, Sequences, FiniteSets, TLC

\* ------------------------------------------------------------------ bounds
MaxAlloc == 2      \* resources content code may construct after Init
MaxObj == 1        \* objects in the registry specification
MaxSubmits == 2    \* Submit calls of one frame
MaxRenderObj == 2  \* objects in the render specification
MaxFrameObj == 2   \* objects in the lifecycle specification
MaxStates == 2     \* game states content code creates for ChangeState
MaxCull == 2       \* objects, and length of the list, CullVisible is given
MaxLines == 2      \* debug lines in the queue
MaxNewTags == 2    \* collision group tags requested beyond the 32 bits
MaxCameras == 2    \* places a Camera2D can be allocated at
MaxColl == 3       \* objects of the collision passes

\* --------------------------------------------------------------- constants
NULL == 0
WildPtr == 0 - 1   \* an indeterminate non-null pointer value
MAX_LAYERS == 16
EngineHandles == 8   \* resources constructed by RenderManager::Init

RegTags == {"a"}                 \* tags content code registers
UserTags == RegTags \cup {"b"}   \* tags content code looks up or refers to
UnregTags == RegTags \cup {"[EngineMesh]default"}
LayerRegTags == {"bg"}                  \* layer names content code registers and assigns

ObjIds == 1 .. MaxObj
StateIds == 1 .. MaxStates

\* ----------------------------------------------------------------- helpers
Put(m, k, v) == [x \in (DOMAIN m) \cup {k} |-> IF x = k THEN v ELSE m[x]]
Erase(m, k) == [x \in (DOMAIN m) \ {k} |-> m[x]]
Range(s) == {s[i] : i \in DOMAIN s}

RECURSIVE SeqOfSet(_)
SeqOfSet(S) ==
  IF S = {} THEN <<>>
  ELSE LET x == CHOOSE y \in S : \A z \in S : y <= z
       IN <<x>> \o SeqOfSet(S \ {x})

\* a record of the resource heap: one shape for every kind of resource
Res(kind, shader, textures, inst, supp, texture) ==
  [kind |-> kind, shader |-> shader, textures |-> textures,
   isInstancingEnabled |-> inst, supportsInstancing |-> supp,
   texture |-> texture,
   \* history, kept for the properties: the `enable` argument of the last
   \* EnableInstancing call that was not skipped for the shader
   instancingAsked |-> FALSE]
ShaderRes(supp) == Res("shader", NULL, {}, FALSE, supp, NULL)
TextureRes == Res("texture", NULL, {}, FALSE, FALSE, NULL)
MeshRes == Res("mesh", NULL, {}, FALSE, FALSE, NULL)
FontRes == Res("font", NULL, {}, FALSE, FALSE, NULL)
MaterialRes(shader, textures) == Res("material", shader, textures, FALSE, FALSE, NULL)
SpriteSheetRes(texture) == Res("spritesheet", NULL, {}, FALSE, FALSE, texture)

VARIABLES
  \* RenderManager
  shaderMap, textureMap, meshMap, materialMap, fontMap, spritesheetMap,
  defaultShader, defaultMaterial, defaultSpriteSheet, defaultMesh, errorTexture,
  heap,          \* handle -> resource record, for every resource ever constructed
  freed,         \* handles whose resource has been destroyed
  \* ObjectManager / Object
  objs,          \* object id -> fields of the Object
  objects, pendingObjects, rawPtrObjects,
  \* StateManager / SNAKE_Engine
  currentState, pc,
  nextState,     \* StateManager::nextState, the queued state
  gs,            \* state id -> the lifecycle hooks the GameState has received
  shouldRun,     \* SNAKE_Engine::shouldRun
  windowShouldClose,   \* glfwWindowShouldClose(window)
  shutdownLog,   \* the calls Run has made after its loop
  \* RenderLayerManager
  nameToID, idToName,
  \* RenderManager: batching
  renderMap,     \* layer -> shader -> InstanceBatchKey -> <<object, camera>> list
  submitLog,     \* the <<object, camera>> pairs BuildRenderMap was given this frame
  nSubmit,       \* Submit calls of this frame
  drawLog,       \* the GPU draw calls of this frame, in issue order
  warnLog,       \* the warnings BuildRenderMap has logged this frame
  \* FrustumCuller
  outVisibleList,   \* the vector a caller of CullVisible passes and reuses
  \* debug lines
  showDebugDraw,    \* SNAKE_Engine::showDebugDraw
  debugLineMap,     \* <<camera, lineWidth>> -> the lines queued under the key
  debugDrawLog,     \* the LINES draws of this frame, in issue order
  \* CollisionGroupRegistry
  tagToBit, bitToTag, currentBit,
  groupCall,        \* the last GetGroupBit call: its tag and the bit it returned
  \* SpatialHashGrid, ObjectManager::CheckCollision
  grid,             \* cell -> the objects inserted into the cell, in order
  ci,               \* position of ComputeCollisions in the candidate pairs
  collisionLog,     \* the pairs the collision callback was invoked with this pass
  \* CameraManager
  cameraMap,        \* tag -> the camera the map owns under the tag
  activeCameraTag,
  cameraCall,       \* the last call of the CameraManager: its name and its tag
  \* WindowManager
  windowWidth, windowHeight,
  \* ObjectManager::UpdateAll
  ui             \* position of the update pass in `objects`

regVars == <<shaderMap, textureMap, meshMap, materialMap, fontMap, spritesheetMap>>
defVars == <<defaultShader, defaultMaterial, defaultSpriteSheet, defaultMesh, errorTexture>>
heapVars == <<heap, freed>>
omVars == <<objects, pendingObjects, rawPtrObjects>>
engineVars == <<nextState, gs, shouldRun, windowShouldClose, shutdownLog>>
stateVars == <<currentState, pc, engineVars>>
layerVars == <<nameToID, idToName>>
batchVars == <<renderMap, submitLog, nSubmit, drawLog, warnLog>>
cullVars == <<outVisibleList>>
debugVars == <<showDebugDraw, debugLineMap, debugDrawLog>>
renderVars == <<layerVars, batchVars>>
groupVars == <<tagToBit, bitToTag, currentBit, groupCall>>
gridVars == <<grid, ci, collisionLog>>
cameraVars == <<cameraMap, activeCameraTag, cameraCall>>
windowVars == <<windowWidth, windowHeight>>
managerVars == <<groupVars, gridVars, cameraVars, windowVars>>
otherVars == <<cullVars, debugVars, managerVars>>
vars == <<regVars, defVars, heapVars, objs, omVars, stateVars, renderVars, otherVars, ui>>

\* ------------------------------------------------------------------ Object
NewObject(type, font) ==
  [life |-> "live", type |-> type, isAlive |-> TRUE, isVisible |-> TRUE,
   ignoreCamera |-> FALSE, material |-> NULL, mesh |-> NULL, sheet |-> NULL,
   font |-> font, renderLayerTag |-> "", inView |-> TRUE,
   collider |-> FALSE,       \* collider != nullptr
   pos |-> <<0, 0>>,         \* world position of the collider
   radius |-> 0,             \* radius of the (circle) collider
   collisionCategory |-> {}, collisionMask |-> {},
   \* history of the object, kept for the properties
   added |-> FALSE,      \* AddObject was called in the current frame
   updated |-> FALSE,    \* Update was called in the current frame
   killed |-> FALSE,     \* Kill was called in the current frame
   killedIn |-> "",      \* the phase Kill was called in
   hooks |-> <<>>]       \* Free / LateFree calls received
Unborn == [NewObject("GAME", NULL) EXCEPT !.life = "unborn"]

\* ---------------------------------------------------- GameState, lifecycle
\* what is kept of a GameState: the last lifecycle hook it received, the one
\* before, and how often Load and Unload were called
NewState == [phase |-> "none", prev |-> "none", loads |-> 0, unloads |-> 0,
             stale |-> FALSE]   \* queued before the current iteration began
Hook(g, h) == [g EXCEPT !.prev = g.phase, !.phase = h,
                        !.loads = IF h = "Load" THEN @ + 1 ELSE @,
                        !.unloads = IF h = "Unload" THEN @ + 1 ELSE @]
Call(s, h) == [gs EXCEPT ![s] = Hook(@, h)]
Queued == [NewState EXCEPT !.phase = "queued"]
\* a state StateManager::Update has loaded and initialised
Entered == Hook(Hook(Queued, "Load"), "Init")
\* CollisionGroupRegistry as constructed: no tag has a bit
CollisionGroupRegistryInit ==
  /\ tagToBit = [t \in {} |-> {}] /\ bitToTag = [b \in {} |-> 0]
  /\ currentBit = 0
  /\ groupCall = [tag |-> 0, bit |-> {}]
\* SpatialHashGrid as constructed: no cell is occupied
SpatialHashGridInit ==
  /\ grid = [c \in {} |-> <<>>] /\ ci = 0 /\ collisionLog = <<>>
\* a Camera2D of a screen size, owned through `ptr`
Camera2D(ptr, screenWidth, screenHeight) ==
  [ptr |-> ptr, screenWidth |-> screenWidth, screenHeight |-> screenHeight]
\* CameraManager as constructed: the default camera under "main", active
CameraManagerInit ==
  /\ cameraMap = [t \in {"main"} |-> Camera2D(1, 1, 1)]
  /\ activeCameraTag = "main"
  /\ cameraCall = [op |-> "CameraManager", tag |-> "main"]
\* WindowManager after Init(1, 1): the cameras of the state that is current
\* have the size of the window
WindowManagerInit == windowWidth = 1 /\ windowHeight = 1
\* the engine after Init, with `state` (in lifecycle position g) current
EngineInit(state, g) ==
  /\ nextState = NULL /\ shouldRun = TRUE /\ windowShouldClose = FALSE
  /\ shutdownLog = <<>>
  /\ gs = [s \in StateIds |-> IF s = state THEN g ELSE NewState]
  /\ showDebugDraw = FALSE
  /\ SpatialHashGridInit /\ CameraManagerInit /\ WindowManagerInit

\* --------------------------------------------------- RenderManager::Init
\* handles are numbered per kind of resource: shaders 11.., textures 21..,
\* materials 31.., meshes 41.., sprite sheets 51.., fonts 61..
InitShaderMap ==
  [t \in {"[EngineShader]internal_text", "[EngineShader]internal_debug_line",
          "[EngineShader]default", "[EngineShader]default_texture"} |->
     CASE t = "[EngineShader]internal_text" -> 11
       [] t = "[EngineShader]internal_debug_line" -> 12
       [] t = "[EngineShader]default" -> 13
       [] OTHER -> 14]
InitHeap ==
  [h \in {11, 12, 13, 14, 21, 31, 41, 51} |->
     CASE h \in 11 .. 14 -> ShaderRes(FALSE)
       [] h = 21 -> TextureRes
       [] h = 31 -> MaterialRes(14, {21})
       [] h = 41 -> MeshRes
       [] OTHER -> SpriteSheetRes(21)]

RenderManagerInit ==
  /\ shaderMap = InitShaderMap
  /\ textureMap = [t \in {"[EngineTexture]error"} |-> 21]
  /\ materialMap = [t \in {"[EngineMaterial]error"} |-> 31]
  /\ meshMap = [t \in {"[EngineMesh]default"} |-> 41]
  /\ spritesheetMap = [t \in {"[EngineSpriteSheet]default"} |-> 51]
  /\ fontMap = [t \in {} |-> NULL]
  /\ errorTexture = 21
  /\ defaultMaterial = 31
  /\ defaultMesh = 41
  /\ defaultSpriteSheet = 51
  /\ defaultShader \in {NULL, WildPtr}   \* Init never assigns it
  /\ heap = InitHeap
  /\ freed = {}

\* ------------------------------------------- RenderLayerManager, RenderMap
Layers == 0 .. (MAX_LAYERS - 1)
RenderLayerManagerInit ==
  /\ nameToID = [t \in {} |-> 0]
  /\ idToName = [id \in Layers |-> ""]
EmptyShaderMap == [sh \in {} |-> <<>>]
RenderMapInit ==
  /\ renderMap = [layer \in Layers |-> EmptyShaderMap]
  /\ submitLog = <<>> /\ nSubmit = 0 /\ drawLog = <<>> /\ warnLog = {}
  /\ outVisibleList = <<>>
  /\ debugLineMap = [key \in {} |-> <<>>] /\ debugDrawLog = <<>>

\* ------------------------------------------------------ Get*ByTag (values)
GetShaderByTag(tag) ==
  IF tag \in DOMAIN shaderMap THEN shaderMap[tag] ELSE defaultShader
GetTextureByTag(tag) ==
  IF tag \in DOMAIN textureMap THEN textureMap[tag] ELSE errorTexture
GetMeshByTag(tag) ==
  IF tag \in DOMAIN meshMap THEN meshMap[tag] ELSE defaultMesh
GetMaterialByTag(tag) ==
  IF tag \in DOMAIN materialMap THEN materialMap[tag] ELSE defaultMaterial
GetFontByTag(tag) ==
  IF tag \in DOMAIN fontMap THEN fontMap[tag] ELSE NULL
GetSpriteSheetByTag(tag) ==
  IF tag \in DOMAIN spritesheetMap THEN spritesheetMap[tag] ELSE defaultSpriteSheet

\* content code runs in main() before Run and inside the hooks of a frame
ContentPhases == {"main", "stateUpdate"}
CanAlloc == Cardinality(DOMAIN heap) < EngineHandles + MaxAlloc
KindBase(kind) ==
  CASE kind = "shader" -> 10 [] kind = "texture" -> 20 [] kind = "material" -> 30
    [] kind = "mesh" -> 40 [] kind = "spritesheet" -> 50 [] OTHER -> 60
NewHandle(kind) ==
  KindBase(kind) + Cardinality({h \in DOMAIN heap : heap[h].kind = kind}) + 1
Construct(h, r) == [x \in (DOMAIN heap) \cup {h} |-> IF x = h THEN r ELSE heap[x]]


\* ------------------------------------------------- RenderManager::Register*
IsRegistered(m, tag) == tag \in DOMAIN m

RegisterShaderFromFiles(tag, ok, supp) ==
  /\ pc \in ContentPhases
  /\ ~IsRegistered(shaderMap, tag) => CanAlloc
  /\ IF IsRegistered(shaderMap, tag)
     THEN UNCHANGED <<shaderMap, heapVars>>
     ELSE /\ heap' = Construct(NewHandle("shader"), ShaderRes(supp))
          /\ IF ok   \* every AttachFromFile and Link succeeded
             THEN shaderMap' = Put(shaderMap, tag, NewHandle("shader")) /\ freed' = freed
             ELSE shaderMap' = shaderMap /\ freed' = freed \cup {NewHandle("shader")}
  /\ UNCHANGED <<textureMap, meshMap, materialMap, fontMap, spritesheetMap,
                 defVars, objs, omVars, stateVars, renderVars, otherVars, ui>>

\* the unique_ptr overloads: the caller constructed the resource; a rejected
\* unique_ptr destroys it when the parameter goes out of scope
RegisterShaderPtr(tag, supp) ==
  /\ pc \in ContentPhases
  /\ CanAlloc
  /\ heap' = Construct(NewHandle("shader"), ShaderRes(supp))
  /\ IF IsRegistered(shaderMap, tag)
     THEN shaderMap' = shaderMap /\ freed' = freed \cup {NewHandle("shader")}
     ELSE shaderMap' = Put(shaderMap, tag, NewHandle("shader")) /\ freed' = freed
  /\ UNCHANGED <<textureMap, meshMap, materialMap, fontMap, spritesheetMap,
                 defVars, objs, omVars, stateVars, renderVars, otherVars, ui>>

RegisterTextureFromFile(tag) ==
  /\ pc \in ContentPhases
  /\ ~IsRegistered(textureMap, tag) => CanAlloc
  /\ IF IsRegistered(textureMap, tag)
     THEN UNCHANGED <<textureMap, heapVars>>
     ELSE /\ heap' = Construct(NewHandle("texture"), TextureRes)
          /\ textureMap' = Put(textureMap, tag, NewHandle("texture"))
          /\ freed' = freed
  /\ UNCHANGED <<shaderMap, meshMap, materialMap, fontMap, spritesheetMap,
                 defVars, objs, omVars, stateVars, renderVars, otherVars, ui>>

\* mutant: no "already registered" check, the new unique_ptr replaces the old
RegisterTexturePtr_Overwrite(tag) ==
  /\ pc \in ContentPhases
  /\ CanAlloc
  /\ heap' = Construct(NewHandle("texture"), TextureRes)
  /\ textureMap' = Put(textureMap, tag, NewHandle("texture"))
  /\ freed' = IF IsRegistered(textureMap, tag) THEN freed \cup {textureMap[tag]} ELSE freed
  /\ UNCHANGED <<shaderMap, meshMap, materialMap, fontMap, spritesheetMap,
                 defVars, objs, omVars, stateVars, renderVars, otherVars, ui>>

RegisterTexturePtr(tag) ==
  /\ pc \in ContentPhases
  /\ CanAlloc
  /\ heap' = Construct(NewHandle("texture"), TextureRes)
  /\ IF IsRegistered(textureMap, tag)
     THEN textureMap' = textureMap /\ freed' = freed \cup {NewHandle("texture")}
     ELSE textureMap' = Put(textureMap, tag, NewHandle("texture")) /\ freed' = freed
  /\ UNCHANGED <<shaderMap, meshMap, materialMap, fontMap, spritesheetMap,
                 defVars, objs, omVars, stateVars, renderVars, otherVars, ui>>

RegisterMeshFromVertices(tag) ==
  /\ pc \in ContentPhases
  /\ ~IsRegistered(meshMap, tag) => CanAlloc
  /\ IF IsRegistered(meshMap, tag)
     THEN UNCHANGED <<meshMap, heapVars>>
     ELSE /\ heap' = Construct(NewHandle("mesh"), MeshRes)
          /\ meshMap' = Put(meshMap, tag, NewHandle("mesh"))
          /\ freed' = freed
  /\ UNCHANGED <<shaderMap, textureMap, materialMap, fontMap, spritesheetMap,
                 defVars, objs, omVars, stateVars, renderVars, otherVars, ui>>

RegisterMeshPtr(tag) ==
  /\ pc \in ContentPhases
  /\ CanAlloc
  /\ heap' = Construct(NewHandle("mesh"), MeshRes)
  /\ IF IsRegistered(meshMap, tag)
     THEN meshMap' = meshMap /\ freed' = freed \cup {NewHandle("mesh")}
     ELSE meshMap' = Put(meshMap, tag, NewHandle("mesh")) /\ freed' = freed
  /\ UNCHANGED <<shaderMap, textureMap, materialMap, fontMap, spritesheetMap,
                 defVars, objs, omVars, stateVars, renderVars, otherVars, ui>>

\* shaderMap[shaderTag] is std::unordered_map::operator[]: it inserts an empty
\* unique_ptr under a tag that is absent
RegisterMaterialFromTags(tag, shaderTag, textureBindings) ==
  LET found == IsRegistered(shaderMap, shaderTag)
      shader == IF found THEN shaderMap[shaderTag] ELSE NULL
      textures == {textureMap[t] : t \in textureBindings \cap DOMAIN textureMap}
  IN
  /\ pc \in ContentPhases
  /\ (~IsRegistered(materialMap, tag) /\ shader # NULL) => CanAlloc
  /\ IF IsRegistered(materialMap, tag)
     THEN UNCHANGED <<shaderMap, materialMap, heapVars>>
     ELSE /\ shaderMap' = IF found THEN shaderMap ELSE Put(shaderMap, shaderTag, NULL)
          /\ IF shader = NULL
             THEN UNCHANGED <<materialMap, heapVars>>
             ELSE /\ heap' = Construct(NewHandle("material"), MaterialRes(shader, textures))
                  /\ materialMap' = Put(materialMap, tag, NewHandle("material"))
                  /\ freed' = freed
  /\ UNCHANGED <<textureMap, meshMap, fontMap, spritesheetMap,
                 defVars, objs, omVars, stateVars, renderVars, otherVars, ui>>

\* the caller builds the Material from a shader it looked up, as Init does
RegisterMaterialPtr(tag, shaderTag) ==
  /\ pc \in ContentPhases
  /\ CanAlloc
  /\ heap' = Construct(NewHandle("material"), MaterialRes(GetShaderByTag(shaderTag), {}))
  /\ IF IsRegistered(materialMap, tag)
     THEN materialMap' = materialMap /\ freed' = freed \cup {NewHandle("material")}
     ELSE materialMap' = Put(materialMap, tag, NewHandle("material")) /\ freed' = freed
  /\ UNCHANGED <<shaderMap, textureMap, meshMap, fontMap, spritesheetMap,
                 defVars, objs, omVars, stateVars, renderVars, otherVars, ui>>

minSize == 4
maxSize == 64
RegisterFontFromFile(tag, pixelSize) ==
  /\ pc \in ContentPhases
  /\ (~IsRegistered(fontMap, tag) /\ pixelSize >= minSize /\ pixelSize <= maxSize)
        => CanAlloc
  /\ IF IsRegistered(fontMap, tag) \/ pixelSize < minSize \/ pixelSize > maxSize
     THEN UNCHANGED <<fontMap, heapVars>>
     ELSE /\ heap' = Construct(NewHandle("font"), FontRes)
          /\ fontMap' = Put(fontMap, tag, NewHandle("font"))
          /\ freed' = freed
  /\ UNCHANGED <<shaderMap, textureMap, meshMap, materialMap, spritesheetMap,
                 defVars, objs, omVars, stateVars, renderVars, otherVars, ui>>

RegisterFontPtr(tag) ==
  /\ pc \in ContentPhases
  /\ CanAlloc
  /\ heap' = Construct(NewHandle("font"), FontRes)
  /\ IF IsRegistered(fontMap, tag)
     THEN fontMap' = fontMap /\ freed' = freed \cup {NewHandle("font")}
     ELSE fontMap' = Put(fontMap, tag, NewHandle("font")) /\ freed' = freed
  /\ UNCHANGED <<shaderMap, textureMap, meshMap, materialMap, spritesheetMap,
                 defVars, objs, omVars, stateVars, renderVars, otherVars, ui>>

RegisterSpriteSheet(tag, textureTag) ==
  LET texture == GetTextureByTag(textureTag) IN
  /\ pc \in ContentPhases
  /\ (~IsRegistered(spritesheetMap, tag) /\ texture # NULL) => CanAlloc
  /\ IF IsRegistered(spritesheetMap, tag) \/ texture = NULL
     THEN UNCHANGED <<spritesheetMap, heapVars>>
     ELSE /\ heap' = Construct(NewHandle("spritesheet"), SpriteSheetRes(texture))
          /\ spritesheetMap' = Put(spritesheetMap, tag, NewHandle("spritesheet"))
          /\ freed' = freed
  /\ UNCHANGED <<shaderMap, textureMap, meshMap, materialMap, fontMap,
                 defVars, objs, omVars, stateVars, renderVars, otherVars, ui>>

\* ----------------------------------------------- RenderManager::Unregister*
GetAllRawPtrObjects == rawPtrObjects
Destroy(h) == IF h = NULL THEN freed ELSE freed \cup {h}

MaterialHasShader(material, shader) == heap[material].shader = shader
MaterialHasTexture(material, texture) == texture \in heap[material].textures

\* Unregister*Erases(tag): the call reaches map.erase(tag)
UnregisterShaderErases(tag) ==
  /\ tag \in DOMAIN shaderMap
  /\ currentState # NULL
  /\ ~\E i \in DOMAIN GetAllRawPtrObjects :
        LET material == objs[GetAllRawPtrObjects[i]].material
        IN material # NULL /\ MaterialHasShader(material, shaderMap[tag])

UnregisterShader(tag) ==
  /\ pc \in ContentPhases
  /\ IF UnregisterShaderErases(tag)
     THEN shaderMap' = Erase(shaderMap, tag) /\ freed' = Destroy(shaderMap[tag])
     ELSE UNCHANGED <<shaderMap, freed>>
  /\ UNCHANGED <<textureMap, meshMap, materialMap, fontMap, spritesheetMap,
                 defVars, heap, objs, omVars, stateVars, renderVars, otherVars, ui>>

UnregisterTextureErases(tag) ==
  /\ tag \in DOMAIN textureMap
  /\ currentState # NULL
  /\ ~\E i \in DOMAIN GetAllRawPtrObjects :
        LET material == objs[GetAllRawPtrObjects[i]].material
        IN material # NULL /\ MaterialHasTexture(material, textureMap[tag])

UnregisterTexture(tag) ==
  /\ pc \in ContentPhases
  /\ IF UnregisterTextureErases(tag)
     THEN textureMap' = Erase(textureMap, tag) /\ freed' = Destroy(textureMap[tag])
     ELSE UNCHANGED <<textureMap, freed>>
  /\ UNCHANGED <<shaderMap, meshMap, materialMap, fontMap, spritesheetMap,
                 defVars, heap, objs, omVars, stateVars, renderVars, otherVars, ui>>

UnregisterMeshErases(tag) ==
  /\ tag \in DOMAIN meshMap
  /\ currentState # NULL
  /\ ~\E i \in DOMAIN GetAllRawPtrObjects :
        objs[GetAllRawPtrObjects[i]].mesh = meshMap[tag]

UnregisterMesh(tag) ==
  /\ pc \in ContentPhases
  /\ IF UnregisterMeshErases(tag)
     THEN meshMap' = Erase(meshMap, tag) /\ freed' = Destroy(meshMap[tag])
     ELSE UNCHANGED <<meshMap, freed>>
  /\ UNCHANGED <<shaderMap, textureMap, materialMap, fontMap, spritesheetMap,
                 defVars, heap, objs, omVars, stateVars, renderVars, otherVars, ui>>

UnregisterMaterialErases(tag) ==
  /\ tag \in DOMAIN materialMap
  /\ currentState # NULL
  /\ ~\E i \in DOMAIN GetAllRawPtrObjects :
        objs[GetAllRawPtrObjects[i]].material = materialMap[tag]

UnregisterMaterial(tag) ==
  /\ pc \in ContentPhases
  /\ IF UnregisterMaterialErases(tag)
     THEN materialMap' = Erase(materialMap, tag) /\ freed' = Destroy(materialMap[tag])
     ELSE UNCHANGED <<materialMap, freed>>
  /\ UNCHANGED <<shaderMap, textureMap, meshMap, fontMap, spritesheetMap,
                 defVars, heap, objs, omVars, stateVars, renderVars, otherVars, ui>>

UnregisterFontErases(tag) ==
  /\ tag \in DOMAIN fontMap
  /\ currentState # NULL
  /\ ~\E i \in DOMAIN GetAllRawPtrObjects :
        LET obj == objs[GetAllRawPtrObjects[i]]
        IN obj.type = "TEXT" /\ obj.font = fontMap[tag]

UnregisterFont(tag) ==
  /\ pc \in ContentPhases
  /\ IF UnregisterFontErases(tag)
     THEN fontMap' = Erase(fontMap, tag) /\ freed' = Destroy(fontMap[tag])
     ELSE UNCHANGED <<fontMap, freed>>
  /\ UNCHANGED <<shaderMap, textureMap, meshMap, materialMap, spritesheetMap,
                 defVars, heap, objs, omVars, stateVars, renderVars, otherVars, ui>>

UnregisterSpriteSheetErases(tag) ==
  /\ tag \in DOMAIN spritesheetMap
  /\ currentState # NULL
  /\ ~\E i \in DOMAIN GetAllRawPtrObjects :
        LET sheet == objs[GetAllRawPtrObjects[i]].sheet
        IN sheet # NULL /\ sheet = spritesheetMap[tag]

UnregisterSpriteSheet(tag) ==
  /\ pc \in ContentPhases
  /\ IF UnregisterSpriteSheetErases(tag)
     THEN /\ spritesheetMap' = Erase(spritesheetMap, tag)
          /\ freed' = Destroy(spritesheetMap[tag])
     ELSE UNCHANGED <<spritesheetMap, freed>>
  /\ UNCHANGED <<shaderMap, textureMap, meshMap, materialMap, fontMap,
                 defVars, heap, objs, omVars, stateVars, renderVars, otherVars, ui>>

\* ------------------------------------------------------ Object (setters)
InManager(o) == o \in Range(objects) \cup Range(pendingObjects)

SetMaterial(o, tag) ==
  /\ pc \in ContentPhases
  /\ InManager(o) /\ objs[o].type = "GAME"
  /\ objs' = [objs EXCEPT ![o].material = GetMaterialByTag(tag)]
  /\ UNCHANGED <<regVars, defVars, heapVars, omVars, stateVars, renderVars, otherVars, ui>>

SetMesh(o, tag) ==
  /\ pc \in ContentPhases
  /\ InManager(o) /\ objs[o].type = "GAME"
  /\ objs' = [objs EXCEPT ![o].mesh = GetMeshByTag(tag)]
  /\ UNCHANGED <<regVars, defVars, heapVars, omVars, stateVars, renderVars, otherVars, ui>>

AttachAnimator(o, tag) ==
  /\ pc \in ContentPhases
  /\ InManager(o) /\ objs[o].type = "GAME"
  /\ objs' = [objs EXCEPT ![o].sheet = GetSpriteSheetByTag(tag)]
  /\ UNCHANGED <<regVars, defVars, heapVars, omVars, stateVars, renderVars, otherVars, ui>>

SetTextInstance(o, tag) ==
  /\ pc \in ContentPhases
  /\ InManager(o) /\ objs[o].type = "TEXT"
  /\ objs' = [objs EXCEPT ![o].font = GetFontByTag(tag)]
  /\ UNCHANGED <<regVars, defVars, heapVars, omVars, stateVars, renderVars, otherVars, ui>>


\* ------------------------------------------------ registry specification
\* Init: RenderManager::Init has run; either main() is still setting up (no
\* current state, no objects) or a state is current and its ObjectManager
\* holds the objects SystemInit integrated.
InitReg ==
  /\ RenderManagerInit
  /\ RenderLayerManagerInit /\ RenderMapInit /\ ui = 0
  /\ CollisionGroupRegistryInit
  /\ \/ /\ pc = "main" /\ currentState = NULL /\ EngineInit(NULL, NewState)
        /\ objs = [o \in ObjIds |-> Unborn]
        /\ objects = <<>> /\ pendingObjects = <<>> /\ rawPtrObjects = <<>>
     \/ /\ pc = "stateUpdate" /\ currentState = 1
        /\ EngineInit(1, Hook(Entered, "Update"))
        /\ \E active \in SUBSET ObjIds, type \in [ObjIds -> {"GAME", "TEXT"}] :
             /\ objs = [o \in ObjIds |->
                          IF o \in active THEN NewObject(type[o], NULL) ELSE Unborn]
             /\ objects = SeqOfSet(active)
             /\ rawPtrObjects = objects
             /\ pendingObjects = <<>>

NextReg ==
  \/ \E tag \in RegTags, ok \in BOOLEAN, supp \in {FALSE} : RegisterShaderFromFiles(tag, ok, supp)
  \/ \E tag \in RegTags, supp \in {FALSE} : RegisterShaderPtr(tag, supp)
  \/ \E tag \in RegTags : RegisterTextureFromFile(tag)
  \/ \E tag \in RegTags : RegisterTexturePtr(tag)
  \/ \E tag \in RegTags : RegisterMeshFromVertices(tag)
  \/ \E tag \in RegTags : RegisterMeshPtr(tag)
  \/ \E tag \in RegTags, shaderTag \in UserTags, b \in SUBSET {"a"} :
        RegisterMaterialFromTags(tag, shaderTag, b)
  \/ \E tag \in RegTags, shaderTag \in UserTags : RegisterMaterialPtr(tag, shaderTag)
  \/ \E tag \in RegTags, pixelSize \in {3, 4, 64, 65} : RegisterFontFromFile(tag, pixelSize)
  \/ \E tag \in RegTags : RegisterFontPtr(tag)
  \/ \E tag \in RegTags, textureTag \in UserTags : RegisterSpriteSheet(tag, textureTag)
  \/ \E tag \in UnregTags : UnregisterShader(tag)
  \/ \E tag \in UnregTags : UnregisterTexture(tag)
  \/ \E tag \in UnregTags : UnregisterMesh(tag)
  \/ \E tag \in UnregTags : UnregisterMaterial(tag)
  \/ \E tag \in UnregTags : UnregisterFont(tag)
  \/ \E tag \in UnregTags : UnregisterSpriteSheet(tag)
  \/ \E o \in ObjIds, tag \in UserTags : SetMaterial(o, tag)
  \/ \E o \in ObjIds, tag \in UserTags : SetMesh(o, tag)
  \/ \E o \in ObjIds, tag \in UserTags : AttachAnimator(o, tag)
  \/ \E o \in ObjIds, tag \in UserTags : SetTextInstance(o, tag)

SpecReg == InitReg /\ [][NextReg]_vars

\* the registries alone: main() registers before Run and a state's Load
\* registers and unregisters before it has created any object
InitRegister ==
  /\ RenderManagerInit
  /\ RenderLayerManagerInit /\ RenderMapInit /\ ui = 0
  /\ CollisionGroupRegistryInit
  /\ objs = [o \in ObjIds |-> Unborn]
  /\ objects = <<>> /\ pendingObjects = <<>> /\ rawPtrObjects = <<>>
  /\ \/ pc = "main" /\ currentState = NULL /\ EngineInit(NULL, NewState)
     \/ /\ pc = "stateUpdate" /\ currentState = 1
        /\ EngineInit(1, Hook(Entered, "Update"))

NextRegister ==
  \/ \E tag \in RegTags, ok \in BOOLEAN, supp \in {FALSE} : RegisterShaderFromFiles(tag, ok, supp)
  \/ \E tag \in RegTags, supp \in {FALSE} : RegisterShaderPtr(tag, supp)
  \/ \E tag \in RegTags : RegisterTextureFromFile(tag)
  \/ \E tag \in RegTags : RegisterTexturePtr(tag)
  \/ \E tag \in RegTags : RegisterMeshFromVertices(tag)
  \/ \E tag \in RegTags : RegisterMeshPtr(tag)
  \/ \E tag \in RegTags, shaderTag \in UserTags, b \in SUBSET {"a"} :
        RegisterMaterialFromTags(tag, shaderTag, b)
  \/ \E tag \in RegTags, shaderTag \in UserTags : RegisterMaterialPtr(tag, shaderTag)
  \/ \E tag \in RegTags, pixelSize \in {3, 4, 64, 65} : RegisterFontFromFile(tag, pixelSize)
  \/ \E tag \in RegTags : RegisterFontPtr(tag)
  \/ \E tag \in RegTags, textureTag \in UserTags : RegisterSpriteSheet(tag, textureTag)
  \/ \E tag \in UnregTags : UnregisterShader(tag)
  \/ \E tag \in UnregTags : UnregisterTexture(tag)
  \/ \E tag \in UnregTags : UnregisterMesh(tag)
  \/ \E tag \in UnregTags : UnregisterMaterial(tag)
  \/ \E tag \in UnregTags : UnregisterFont(tag)
  \/ \E tag \in UnregTags : UnregisterSpriteSheet(tag)

SpecRegister == InitRegister /\ [][NextRegister]_vars


\* ---------------------------------------------- properties of the registries
KeptIntact(h) == h = NULL \/ (h \notin freed' /\ heap'[h] = heap[h])

\* C5: registering a tag that is already registered is a no-op: no registry
\* changes, so the tag keeps the resource of the first registration, and that
\* resource is neither destroyed nor altered.
C5_RegisterExistingTagIsNoOp ==
  [][\A tag \in RegTags :
       /\ (/\ tag \in DOMAIN shaderMap
           /\ \/ \E ok \in BOOLEAN, supp \in BOOLEAN : RegisterShaderFromFiles(tag, ok, supp)
              \/ \E supp \in BOOLEAN : RegisterShaderPtr(tag, supp))
          => (regVars' = regVars /\ KeptIntact(shaderMap[tag]))
       /\ (/\ tag \in DOMAIN textureMap
           /\ (RegisterTextureFromFile(tag) \/ RegisterTexturePtr(tag)))
          => (regVars' = regVars /\ KeptIntact(textureMap[tag]))
       /\ (/\ tag \in DOMAIN meshMap
           /\ (RegisterMeshFromVertices(tag) \/ RegisterMeshPtr(tag)))
          => (regVars' = regVars /\ KeptIntact(meshMap[tag]))
       /\ (/\ tag \in DOMAIN materialMap
           /\ \/ \E st \in UserTags, b \in SUBSET {"a"} : RegisterMaterialFromTags(tag, st, b)
              \/ \E st \in UserTags : RegisterMaterialPtr(tag, st))
          => (regVars' = regVars /\ KeptIntact(materialMap[tag]))
       /\ (/\ tag \in DOMAIN fontMap
           /\ \/ \E px \in {3, 4, 64, 65} : RegisterFontFromFile(tag, px)
              \/ RegisterFontPtr(tag))
          => (regVars' = regVars /\ KeptIntact(fontMap[tag]))
       /\ (/\ tag \in DOMAIN spritesheetMap
           /\ \E tt \in UserTags : RegisterSpriteSheet(tag, tt))
          => (regVars' = regVars /\ KeptIntact(spritesheetMap[tag]))
    ]_vars

\* a second RegisterTexture(tag, unique_ptr) was rejected in main(), where
\* nothing is ever unregistered: the texture it brought was destroyed and the
\* first one is still registered
C5_Witness ==
  /\ pc = "main"
  /\ "a" \in DOMAIN textureMap /\ textureMap["a"] \notin freed
  /\ \E h \in freed : heap[h].kind = "texture"

\* what an object refers to: its own pointers, and what its material and its
\* animator's sprite sheet bind when the object is drawn
ObjReferences(o, h) ==
  LET obj == objs[o] IN
  /\ h # NULL
  /\ \/ obj.material = h \/ obj.mesh = h \/ obj.sheet = h
     \/ (obj.type = "TEXT" /\ obj.font = h)
     \/ (obj.material # NULL /\ (heap[obj.material].shader = h
                                 \/ h \in heap[obj.material].textures))
     \/ (obj.sheet # NULL /\ heap[obj.sheet].texture = h)
ReferencedByIntegrated(h) == \E o \in Range(rawPtrObjects) : ObjReferences(o, h)
Unreferenced(h) ==
  \A o \in Range(objects) \cup Range(pendingObjects) : ~ObjReferences(o, h)

\* C6: unregistering a resource that an object of the current state still
\* refers to is refused: the entry stays and the resource is not destroyed.
\* (Stated for integrated objects only, the ones Unregister* scans.)
C6_ReferencedResourceKept ==
  [][\A tag \in UnregTags :
       /\ (tag \in DOMAIN shaderMap /\ ReferencedByIntegrated(shaderMap[tag])
             /\ UnregisterShader(tag))
          => (shaderMap' = shaderMap /\ freed' = freed)
       /\ (tag \in DOMAIN textureMap /\ ReferencedByIntegrated(textureMap[tag])
             /\ UnregisterTexture(tag))
          => (textureMap' = textureMap /\ freed' = freed)
       /\ (tag \in DOMAIN meshMap /\ ReferencedByIntegrated(meshMap[tag])
             /\ UnregisterMesh(tag))
          => (meshMap' = meshMap /\ freed' = freed)
       /\ (tag \in DOMAIN materialMap /\ ReferencedByIntegrated(materialMap[tag])
             /\ UnregisterMaterial(tag))
          => (materialMap' = materialMap /\ freed' = freed)
       /\ (tag \in DOMAIN fontMap /\ ReferencedByIntegrated(fontMap[tag])
             /\ UnregisterFont(tag))
          => (fontMap' = fontMap /\ freed' = freed)
       /\ (tag \in DOMAIN spritesheetMap /\ ReferencedByIntegrated(spritesheetMap[tag])
             /\ UnregisterSpriteSheet(tag))
          => (spritesheetMap' = spritesheetMap /\ freed' = freed)
    ]_vars

\* C7: a lookup of a tag that is not in the registry returns a non-null
\* resource of the right kind that Init constructed and that still exists.
ValidFallback(h, kind) ==
  /\ h # NULL
  /\ h \in DOMAIN InitHeap
  /\ heap[h].kind = kind
  /\ h \notin freed
C7_LookupFallbackValid ==
  \A tag \in UserTags :
    /\ tag \notin DOMAIN shaderMap => ValidFallback(GetShaderByTag(tag), "shader")
    /\ tag \notin DOMAIN meshMap => ValidFallback(GetMeshByTag(tag), "mesh")
    /\ tag \notin DOMAIN materialMap => ValidFallback(GetMaterialByTag(tag), "material")
    /\ tag \notin DOMAIN textureMap => ValidFallback(GetTextureByTag(tag), "texture")

\* C8: Unregister* of a registered tag whose resource no object refers to
\* erases the entry.
C8_UnreferencedUnregisterRemoves ==
  \A tag \in UnregTags :
    /\ (tag \in DOMAIN shaderMap /\ shaderMap[tag] # NULL /\ Unreferenced(shaderMap[tag]))
          => UnregisterShaderErases(tag)
    /\ (tag \in DOMAIN textureMap /\ Unreferenced(textureMap[tag]))
          => UnregisterTextureErases(tag)
    /\ (tag \in DOMAIN meshMap /\ Unreferenced(meshMap[tag]))
          => UnregisterMeshErases(tag)
    /\ (tag \in DOMAIN materialMap /\ Unreferenced(materialMap[tag]))
          => UnregisterMaterialErases(tag)
    /\ (tag \in DOMAIN fontMap /\ Unreferenced(fontMap[tag]))
          => UnregisterFontErases(tag)
    /\ (tag \in DOMAIN spritesheetMap /\ Unreferenced(spritesheetMap[tag]))
          => UnregisterSpriteSheetErases(tag)


\* ------------------------------------------------------ RenderLayerManager
HasLayer(name) == name \in DOMAIN nameToID
GetLayerID(name) == nameToID[name]          \* the value of the optional
GetLayerName(id) == idToName[id]            \* idToName.at(id)

RegisterRenderLayer(tag, layer) ==
  /\ pc \in ContentPhases
  /\ IF tag \in DOMAIN nameToID
     THEN UNCHANGED layerVars
     ELSE IF layer >= MAX_LAYERS \/ idToName[layer] # ""
     THEN UNCHANGED layerVars
     ELSE /\ nameToID' = Put(nameToID, tag, layer)
          /\ idToName' = [idToName EXCEPT ![layer] = tag]
  /\ UNCHANGED <<regVars, defVars, heapVars, objs, omVars, stateVars, batchVars, otherVars, ui>>

UnregisterRenderLayer_KeepsName(name) ==
  /\ pc \in ContentPhases
  /\ IF name \notin DOMAIN nameToID
     THEN UNCHANGED layerVars
     ELSE /\ nameToID' = Erase(nameToID, name)
          /\ UNCHANGED idToName
  /\ UNCHANGED <<regVars, defVars, heapVars, objs, omVars, stateVars, batchVars, otherVars, ui>>
UnregisterRenderLayer(name) ==
  /\ pc \in ContentPhases
  /\ IF name \notin DOMAIN nameToID
     THEN UNCHANGED layerVars
     ELSE /\ nameToID' = Erase(nameToID, name)
          /\ idToName' = [idToName EXCEPT ![nameToID[name]] = ""]
  /\ UNCHANGED <<regVars, defVars, heapVars, objs, omVars, stateVars, batchVars, otherVars, ui>>

\* --------------------------------------------------- Object, Material (more)
SetRenderLayer(o, tag) ==
  /\ pc \in ContentPhases
  /\ InManager(o)
  /\ objs' = [objs EXCEPT ![o].renderLayerTag = tag]
  /\ UNCHANGED <<regVars, defVars, heapVars, omVars, stateVars, renderVars, otherVars, ui>>

SetVisibility(o, isVisible) ==
  /\ pc \in ContentPhases
  /\ InManager(o)
  /\ objs' = [objs EXCEPT ![o].isVisible = isVisible]
  /\ UNCHANGED <<regVars, defVars, heapVars, omVars, stateVars, renderVars, otherVars, ui>>

IsInstancingSupported_IgnoreEnabled(material) ==
  /\ heap[material].shader # NULL
  /\ heap[heap[material].shader].supportsInstancing

IsInstancingSupported(material) ==
  /\ heap[material].isInstancingEnabled
  /\ heap[material].shader # NULL
  /\ heap[heap[material].shader].supportsInstancing

EnableInstancing(tag, enable) ==
  LET material == GetMaterialByTag(tag)
      shader == heap[material].shader
  IN
  /\ pc \in ContentPhases
  /\ IF shader # NULL /\ ~heap[shader].supportsInstancing
     THEN UNCHANGED heap
     ELSE IF ~heap[material].isInstancingEnabled
     THEN heap' = [heap EXCEPT ![material].isInstancingEnabled = enable,
                               ![material].instancingAsked = enable]
     ELSE heap' = [heap EXCEPT ![material].instancingAsked = enable]
  /\ UNCHANGED <<regVars, defVars, freed, objs, omVars, stateVars, renderVars, otherVars, ui>>

CanBeInstanced(o) ==
  /\ objs[o].mesh # NULL
  /\ objs[o].material # NULL
  /\ IsInstancingSupported(objs[o].material)

\* ------------------------------------------- FrustumCuller, BuildRenderMap
MainCamera == 1                     \* the camera the CameraManager constructs
\* a map entry that owns no camera
NullCamera == Camera2D(NULL, 0, 0)
GetCamera(tag) == IF tag \in DOMAIN cameraMap THEN cameraMap[tag].ptr ELSE NULL
GetActiveCamera == GetCamera(activeCameraTag)
\* the cameras the map owns
OwnedCameras == {cameraMap[t].ptr : t \in DOMAIN cameraMap} \ {NULL}

\* the map a CameraManager has when its GameState is constructed
NewCameraMap == [t \in {"main"} |-> Camera2D(MainCamera, 1, 1)]
\* the loop of SetScreenSizeForAll: every camera the map owns gets the size
SizedForAll(map, width, height) ==
  [t \in DOMAIN map |->
     IF map[t].ptr # NULL
     THEN [map[t] EXCEPT !.screenWidth = width, !.screenHeight = height]
     ELSE map[t]]
\* the hooks in which content code registers cameras
CameraPhases == ContentPhases \cup {"stateLoad", "stateInit"}

\* RegisterCamera(tag, camera) with a camera content code has constructed
RegisterCamera(tag, camera) ==
  /\ pc \in CameraPhases
  /\ camera.ptr \notin OwnedCameras
  /\ cameraMap' = Put(cameraMap, tag, camera)
  /\ cameraCall' = [op |-> "RegisterCamera", tag |-> tag]
  /\ UNCHANGED <<regVars, defVars, heapVars, objs, omVars, stateVars, renderVars,
                 cullVars, debugVars, windowVars, groupVars, gridVars, activeCameraTag, ui>>

SetActiveCamera(tag) ==
  /\ pc \in ContentPhases
  /\ activeCameraTag' = IF tag \in DOMAIN cameraMap THEN tag ELSE activeCameraTag
  /\ cameraCall' = [op |-> "SetActiveCamera", tag |-> tag]
  /\ UNCHANGED <<regVars, defVars, heapVars, objs, omVars, stateVars, renderVars,
                 cullVars, debugVars, windowVars, groupVars, gridVars, cameraMap, ui>>

SetScreenSizeForAll(width, height) ==
  /\ pc \in ContentPhases
  /\ cameraMap' = SizedForAll(cameraMap, width, height)
  /\ cameraCall' = [op |-> "SetScreenSizeForAll", tag |-> ""]
  /\ UNCHANGED <<regVars, defVars, heapVars, objs, omVars, stateVars, renderVars,
                 cullVars, debugVars, windowVars, groupVars, gridVars, activeCameraTag, ui>>

\* SetScreenSize(tag, width, height): cameraMap[tag] is operator[], which
\* inserts an entry that owns no camera when the map has none for the tag
SetScreenSize(tag, width, height) ==
  LET inserted == IF tag \in DOMAIN cameraMap THEN cameraMap
                  ELSE Put(cameraMap, tag, NullCamera)
  IN
  /\ pc \in ContentPhases
  /\ cameraMap' = IF inserted[tag].ptr # NULL
                  THEN [inserted EXCEPT ![tag].screenWidth = width,
                                        ![tag].screenHeight = height]
                  ELSE inserted
  /\ cameraCall' = [op |-> "SetScreenSize", tag |-> tag]
  /\ UNCHANGED <<regVars, defVars, heapVars, objs, omVars, stateVars, renderVars,
                 cullVars, debugVars, windowVars, groupVars, gridVars, activeCameraTag, ui>>

IsInView(o) == objs[o].inView       \* camera.IsInView(pos, radius, viewportSize)
\* the loop of CullVisible over allObjects, appending to the output vector
RECURSIVE CullVisibleLoop(_, _)
CullVisibleLoop(allObjects, out) ==
  IF allObjects = <<>> THEN out
  ELSE LET obj == Head(allObjects)
           next == IF ~objs[obj].isAlive \/ ~objs[obj].isVisible THEN out
                   ELSE IF objs[obj].ignoreCamera THEN Append(out, obj)
                   ELSE IF IsInView(obj) THEN Append(out, obj)
                   ELSE out
       IN CullVisibleLoop(Tail(allObjects), next)

CullVisible_NoClear(allObjects, outVisibleList_) ==
  CullVisibleLoop(allObjects, outVisibleList_)
\* the value of the output vector after the call; its first statement is
\* outVisibleList.clear()
CullVisible(allObjects, outVisibleList_) ==
  CullVisibleLoop(allObjects, <<>>)

InstanceBatchKey_NoSpriteSheet(mesh, material, spriteSheet) ==
  [mesh |-> mesh, material |-> material, spriteSheet |-> NULL]

InstanceBatchKey(mesh, material, spriteSheet) ==
  [mesh |-> mesh, material |-> material, spriteSheet |-> spriteSheet]

KeyLess(a, b) ==
  IF a.mesh # b.mesh THEN a.mesh < b.mesh
  ELSE IF a.material # b.material THEN a.material < b.material
  ELSE a.spriteSheet < b.spriteSheet

\* what BuildRenderMap reads from one object
ShaderOf(o) == IF objs[o].material # NULL THEN heap[objs[o].material].shader ELSE NULL
LayerOf(o) ==
  IF HasLayer(objs[o].renderLayerTag) THEN GetLayerID(objs[o].renderLayerTag) ELSE 0
KeyOf(o) == InstanceBatchKey(objs[o].mesh, objs[o].material, objs[o].sheet)
Skipped(o) ==
  \/ ~objs[o].isVisible
  \/ objs[o].material = NULL \/ objs[o].mesh = NULL \/ ShaderOf(o) = NULL
  \/ LayerOf(o) >= MAX_LAYERS

EmplaceBack(rm, layer, shader, key, entry) ==
  LET sm == rm[layer]
      bm == IF shader \in DOMAIN sm THEN sm[shader] ELSE [k \in {} |-> <<>>]
      batch == IF key \in DOMAIN bm THEN bm[key] ELSE <<>>
  IN [rm EXCEPT ![layer] = Put(sm, shader, Put(bm, key, Append(batch, entry)))]

\* the warnings BuildRenderMap logs for `source`
BuildRenderMapWarnings(source) ==
  {"render skipped - invalid layer" :
     o \in {x \in Range(source) :
              /\ objs[x].isVisible
              /\ objs[x].material # NULL /\ objs[x].mesh # NULL /\ ShaderOf(x) # NULL
              /\ LayerOf(x) >= MAX_LAYERS}}

RECURSIVE BuildRenderMap(_, _, _)
BuildRenderMap(rm, source, camera) ==
  IF source = <<>> THEN rm
  ELSE LET obj == Head(source)
           next == IF Skipped(obj) THEN rm
                   ELSE EmplaceBack(rm, LayerOf(obj), ShaderOf(obj), KeyOf(obj),
                                    <<obj, camera>>)
       IN BuildRenderMap(next, Tail(source), camera)

Submit(objects_) ==
  LET camera == GetActiveCamera
      visibleObjects == CullVisible(objects_, <<>>)  \* a fresh local vector
  IN
  /\ pc = "draw"
  /\ nSubmit < MaxSubmits
  /\ nSubmit' = nSubmit + 1
  /\ IF camera # NULL
     THEN /\ renderMap' = BuildRenderMap(renderMap, visibleObjects, camera)
          /\ submitLog' = submitLog \o
                [i \in 1 .. Len(visibleObjects) |-> <<visibleObjects[i], camera>>]
          /\ warnLog' = warnLog \cup BuildRenderMapWarnings(visibleObjects)
     ELSE UNCHANGED <<renderMap, submitLog, warnLog>>
  /\ UNCHANGED <<regVars, defVars, heapVars, objs, omVars, stateVars, layerVars,
                 drawLog, otherVars, ui>>

\* ------------------------------------------------------- FlushDrawCommands
RECURSIVE Flatten(_)
Flatten(ss) == IF ss = <<>> THEN <<>> ELSE Head(ss) \o Flatten(Tail(ss))

RECURSIVE KeySeq(_)
KeySeq(K) ==
  IF K = {} THEN <<>>
  ELSE LET k == CHOOSE x \in K : \A y \in K \ {x} : KeyLess(x, y)
       IN <<k>> \o KeySeq(K \ {k})

\* one GPU draw call: DrawInstanced for a whole batch, or Draw for one object
DrawCall(layer, shader, key, rep, instanced, drawn) ==
  [layer |-> layer, shader |-> shader, key |-> key, rep |-> rep,
   instanced |-> instanced, objs |-> drawn]

\* mutant: the objects of a batch that is not instanced are drawn last first
BatchCalls_Reversed(layer, shader, key, batch) ==
  LET rep == batch[1][1] IN
  IF CanBeInstanced(rep)
  THEN << DrawCall(layer, shader, key, rep, TRUE,
                   [i \in 1 .. Len(batch) |-> batch[i][1]]) >>
  ELSE [i \in 1 .. Len(batch) |->
          DrawCall(layer, shader, key, rep, FALSE, << batch[Len(batch) + 1 - i][1] >>)]

BatchCalls(layer, shader, key, batch) ==
  LET rep == batch[1][1] IN
  IF CanBeInstanced(rep)
  THEN << DrawCall(layer, shader, key, rep, TRUE,
                   [i \in 1 .. Len(batch) |-> batch[i][1]]) >>
  ELSE [i \in 1 .. Len(batch) |->
          DrawCall(layer, shader, key, rep, FALSE, << batch[i][1] >>)]

ShaderCalls(layer, shader) ==
  LET batchMap == renderMap[layer][shader]
      keys == KeySeq(DOMAIN batchMap)
  IN Flatten([i \in 1 .. Len(keys) |->
                BatchCalls(layer, shader, keys[i], batchMap[keys[i]])])

LayerCalls(layer) ==
  LET shaders == SeqOfSet(DOMAIN renderMap[layer])
  IN Flatten([i \in 1 .. Len(shaders) |-> ShaderCalls(layer, shaders[i])])

LayerOrder_Descending == [i \in 1 .. MAX_LAYERS |-> MAX_LAYERS - i]

LayerOrder == [i \in 1 .. MAX_LAYERS |-> i - 1]

FlushCalls == Flatten([i \in 1 .. MAX_LAYERS |-> LayerCalls(LayerOrder[i])])

\* the texture each draw leaves bound under "u_Texture" of its material
RECURSIVE BindTextures(_, _)
BindTextures(h, calls) ==
  IF calls = <<>> THEN h
  ELSE LET c == Head(calls)
           material == c.key.material
           obj == c.objs[1]
           t1 == IF h[material].textures = {} THEN {errorTexture}
                 ELSE h[material].textures
           t2 == IF objs[obj].sheet # NULL THEN {h[objs[obj].sheet].texture}
                 ELSE t1
       IN BindTextures([h EXCEPT ![material].textures = t2], Tail(calls))

ClearedRenderMap_Kept == renderMap

ClearedRenderMap == [layer \in Layers |-> EmptyShaderMap]

\* ------------------------------------------------------------ debug lines
\* a queued line; `old` is history: the line was queued in an earlier frame
DebugLine(lineWidth) == [lineWidth |-> lineWidth, old |-> FALSE]
DebugKeyLess(a, b) == a[1] < b[1] \/ (a[1] = b[1] /\ a[2] < b[2])
RECURSIVE DebugKeySeq(_)
DebugKeySeq(K) ==
  IF K = {} THEN <<>>
  ELSE LET k == CHOOSE x \in K : \A y \in K \ {x} : DebugKeyLess(x, y)
       IN <<k>> \o DebugKeySeq(K \ {k})
\* one LINES draw per key, then debugLineMap.clear()
FlushDebugLineDrawCommands ==
  LET keys == DebugKeySeq(DOMAIN debugLineMap) IN
  /\ debugDrawLog' = debugDrawLog \o
       [i \in 1 .. Len(keys) |->
          [camera |-> keys[i][1], lineWidth |-> keys[i][2],
           lines |-> debugLineMap[keys[i]]]]
  /\ debugLineMap' = [key \in {} |-> <<>>]

\* StateManager::Draw after the state's Draw hook: FlushDrawCommands, and
\* FlushDebugLineDrawCommands if the engine shows debug draws
FlushDrawCommands ==
  /\ pc = "draw"
  /\ pc' = "flushed"
  /\ IF showDebugDraw THEN FlushDebugLineDrawCommands
     ELSE UNCHANGED <<debugLineMap, debugDrawLog>>
  /\ drawLog' = drawLog \o FlushCalls
  /\ heap' = BindTextures(heap, FlushCalls)
  /\ renderMap' = ClearedRenderMap
  /\ UNCHANGED <<regVars, defVars, freed, objs, omVars, currentState, engineVars,
                 layerVars, submitLog, nSubmit, warnLog, cullVars, managerVars, showDebugDraw, ui>>

\* ------------------------------------------------------------ ObjectManager
HookPhases == {"stateUpdate", "updateAll", "collision", "computeCollisions",
               "lateUpdate", "draw"}

AddObject(o, obj) ==
  /\ pc \in HookPhases
  /\ objs[o].life = "unborn"
  /\ objs' = [objs EXCEPT ![o] = [obj EXCEPT !.added = TRUE]]
  /\ pendingObjects' = Append(pendingObjects, o)
  /\ UNCHANGED <<regVars, defVars, heapVars, objects, rawPtrObjects, stateVars,
                 renderVars, otherVars, ui>>

Kill(o) ==
  /\ pc \in HookPhases
  /\ InManager(o)
  /\ objs[o].isAlive
  /\ objs' = [objs EXCEPT ![o].isAlive = FALSE, ![o].killed = TRUE,
                          ![o].killedIn = pc]
  /\ UNCHANGED <<regVars, defVars, heapVars, omVars, stateVars, renderVars, otherVars, ui>>

\* the `objects` list after AddAllPendingObjects
AddAllPendingObjects == objects \o pendingObjects
\* the objects EraseDeadObjects removes from a list, and what it leaves
DeadObjects(list) == {list[i] : i \in {j \in DOMAIN list : ~objs[list[j]].isAlive}}
EraseDeadObjects(list) == SelectSeq(list, LAMBDA o : objs[o].isAlive)
Freed(o) == [objs[o] EXCEPT !.life = "erased",
                            !.hooks = objs[o].hooks \o <<"Free", "LateFree">>]

\* GameState::Update (default): ObjectManager::UpdateAll starts its update pass
GameStateUpdate_NoUpdateAll ==
  /\ pc = "stateUpdate"
  /\ pc' = "collision"
  /\ UNCHANGED <<regVars, defVars, heapVars, objs, omVars, currentState, engineVars,
                 renderVars, otherVars, ui>>

GameStateUpdate ==
  /\ pc = "stateUpdate"
  /\ pc' = "updateAll"
  /\ ui' = 1
  /\ UNCHANGED <<regVars, defVars, heapVars, objs, omVars, currentState, engineVars, renderVars, otherVars>>

\* UpdateAll, step 1: Object::Update of the next object, if it is alive
ObjectUpdate ==
  /\ pc = "updateAll"
  /\ ui \in DOMAIN objects
  /\ objs' = [objs EXCEPT ![objects[ui]].updated =
                             (@ \/ objs[objects[ui]].isAlive)]
  /\ ui' = ui + 1
  /\ UNCHANGED <<regVars, defVars, heapVars, omVars, stateVars, renderVars, otherVars>>

\* UpdateAll, steps 2 to 4: add the queued objects, remove the dead ones,
\* refresh the raw pointer list
UpdateAllTail ==
  /\ pc = "updateAll"
  /\ ui > Len(objects)
  /\ objects' = EraseDeadObjects(AddAllPendingObjects)
  /\ pendingObjects' = <<>>
  /\ rawPtrObjects' = objects'
  /\ objs' = [o \in DOMAIN objs |->
                IF o \in DeadObjects(AddAllPendingObjects) THEN Freed(o) ELSE objs[o]]
  /\ pc' = "collision"
  /\ ui' = 0
  /\ UNCHANGED <<regVars, defVars, heapVars, currentState, engineVars, renderVars, otherVars>>

DrawAll == Submit(SelectSeq(rawPtrObjects, LAMBDA o : objs[o].isAlive))

\* content code queues a debug line and switches debug draws on and off
QueuedLines == UNION {{<<key, i>> : i \in DOMAIN debugLineMap[key]} : key \in DOMAIN debugLineMap}
DrawDebugLine(camera, lineWidth) ==
  LET key == <<camera, lineWidth>>
      lines == IF key \in DOMAIN debugLineMap THEN debugLineMap[key] ELSE <<>>
  IN
  /\ pc \in HookPhases
  /\ Cardinality(QueuedLines) < MaxLines
  /\ debugLineMap' = Put(debugLineMap, key, Append(lines, DebugLine(lineWidth)))
  /\ UNCHANGED <<regVars, defVars, heapVars, objs, omVars, stateVars, renderVars,
                 cullVars, managerVars, showDebugDraw, debugDrawLog, ui>>

RenderDebugDraws(shouldShow) ==
  /\ pc \in ContentPhases
  /\ showDebugDraw' = shouldShow
  /\ UNCHANGED <<regVars, defVars, heapVars, objs, omVars, currentState, pc,
                 nextState, gs, shouldRun, windowShouldClose, shutdownLog,
                 renderVars, cullVars, managerVars, debugLineMap, debugDrawLog, ui>>

\* ------------------------------------ GameState::SystemUpdate, Run's loop
\* top of the loop: PollEvents, ClearScreen, StateManager::Update enters
\* SystemUpdate, which enters the state's Update hook
\* mutant: the loop condition does not look at shouldRun
LoopContinues_IgnoresQuit == ~windowShouldClose

LoopContinues == shouldRun /\ ~windowShouldClose
\* a state that is queued when an iteration begins has waited for it
Waited(g) == [s \in DOMAIN g |->
                IF s = nextState THEN [g[s] EXCEPT !.stale = TRUE] ELSE g[s]]
\* the histories kept of one iteration start empty
NewFrame(os) ==
  /\ drawLog' = <<>> /\ submitLog' = <<>> /\ nSubmit' = 0 /\ warnLog' = {}
  /\ debugDrawLog' = <<>>
  /\ debugLineMap' = [key \in DOMAIN debugLineMap |->
                        [i \in DOMAIN debugLineMap[key] |->
                           [debugLineMap[key][i] EXCEPT !.old = TRUE]]]
  /\ objs' = [o \in DOMAIN os |->
                [os[o] EXCEPT !.added = FALSE, !.updated = FALSE, !.killed = FALSE]]

\* mutant: Update enters SystemUpdate although a state is queued
RunFrameBegin_IgnoresQueued ==
  /\ pc = "loop"
  /\ LoopContinues
  /\ currentState # NULL
  /\ pc' = "stateUpdate"
  /\ gs' = [Waited(gs) EXCEPT ![currentState] = Hook(@, "Update")]
  /\ NewFrame(objs)
  /\ UNCHANGED <<regVars, defVars, heapVars, omVars, currentState, nextState,
                 shouldRun, windowShouldClose, shutdownLog, layerVars, renderMap, cullVars, managerVars, showDebugDraw,
                 ui>>

RunFrameBegin ==
  /\ pc = "loop"
  /\ LoopContinues
  /\ nextState = NULL
  /\ currentState # NULL
  /\ pc' = "stateUpdate"
  /\ gs' = [Waited(gs) EXCEPT ![currentState] = Hook(@, "Update")]
  /\ NewFrame(objs)
  /\ UNCHANGED <<regVars, defVars, heapVars, omVars, currentState, nextState,
                 shouldRun, windowShouldClose, shutdownLog, layerVars, renderMap, cullVars, managerVars, showDebugDraw,
                 ui>>

\* ---------------------------------------------------- SpatialHashGrid
cellSize == 50
GetCell_Origin(pos) == <<0, 0>>
\* floor(pos / cellSize) on each axis
GetCell(pos) == <<pos[1] \div cellSize, pos[2] \div cellSize>>
InsertToCell(g, o, cell) ==
  Put(g, cell, Append(IF cell \in DOMAIN g THEN g[cell] ELSE <<>>, o))
Insert(g, o) == InsertToCell(g, o, GetCell(objs[o].pos))
Clear_KeepsCells == grid
\* the grid after Clear
Clear == [c \in {} |-> <<>>]
\* the loop of CheckCollision over the objects: those with a collider are
\* inserted into g
RECURSIVE InsertObjects(_, _)
InsertObjects(g, list) ==
  IF list = <<>> THEN g
  ELSE InsertObjects(IF objs[Head(list)].collider THEN Insert(g, Head(list)) ELSE g,
                     Tail(list))
\* the pairs ComputeCollisions forms in one cell, in the order it forms them
RECURSIVE BucketPairs(_)
BucketPairs(b) ==
  IF Len(b) < 2 THEN <<>>
  ELSE [j \in 1 .. Len(b) - 1 |-> <<b[1], b[j + 1]>>] \o BucketPairs(Tail(b))
\* and in the cells K of g, one cell after the other
RECURSIVE CellPairs(_, _)
CellPairs(g, K) ==
  IF K = {} THEN <<>>
  ELSE LET c == CHOOSE c \in K : \A d \in K : c = d \/ DebugKeyLess(c, d)
       IN BucketPairs(g[c]) \o CellPairs(g, K \ {c})
CandidatePairs(g) == CellPairs(g, DOMAIN g)
MaskIntersects_Always(a, b) == TRUE
\* the category / mask filter of a pair
MaskIntersects(a, b) == objs[a].collisionCategory \cap objs[b].collisionMask # {}
\* Collider::CheckCollision of two circle colliders
ShapesOverlap(a, b) ==
  LET dx == objs[a].pos[1] - objs[b].pos[1]
      dy == objs[a].pos[2] - objs[b].pos[2]
      r == objs[a].radius + objs[b].radius
  IN dx * dx + dy * dy < r * r
\* ComputeCollisions invokes the callback for the pair
Collides(a, b) ==
  /\ objs[a].isAlive /\ objs[b].isAlive
  /\ objs[a].collider /\ objs[b].collider
  /\ MaskIntersects(a, b)
  /\ ShapesOverlap(a, b)

\* ObjectManager::CheckCollision up to the first pair: the grid is cleared
\* and every object that has a collider is inserted; with no pair to test
\* ComputeCollisions returns and LateUpdate is entered
CheckCollision ==
  /\ pc = "collision"
  /\ grid' = InsertObjects(Clear, objects)
  /\ collisionLog' = <<>>
  /\ ci' = 0
  /\ pc' = IF CandidatePairs(grid') = <<>> THEN "lateUpdate" ELSE "computeCollisions"
  /\ UNCHANGED <<regVars, defVars, heapVars, objs, omVars, currentState, engineVars,
                 renderVars, cullVars, debugVars, windowVars, groupVars, cameraVars, ui>>

\* ComputeCollisions tests its next pair and invokes the callback, whose
\* OnCollision hooks run before the next pair is tested
ComputeCollisions ==
  LET pairs == CandidatePairs(grid)
      pair == pairs[ci + 1]
  IN
  /\ pc = "computeCollisions"
  /\ collisionLog' = IF Collides(pair[1], pair[2]) THEN Append(collisionLog, pair)
                     ELSE collisionLog
  /\ IF ci + 1 = Len(pairs)
     THEN ci' = 0 /\ pc' = "lateUpdate"
     ELSE ci' = ci + 1 /\ pc' = pc
  /\ UNCHANGED <<regVars, defVars, heapVars, objs, omVars, currentState, engineVars,
                 renderVars, cullVars, debugVars, windowVars, groupVars, cameraVars, grid, ui>>

\* mutant: SystemUpdate calls LateUpdate in place of CheckCollision
LateUpdate_SkipsCollision ==
  /\ pc = "collision"
  /\ pc' = "draw"
  /\ gs' = Call(currentState, "Draw")
  /\ UNCHANGED <<regVars, defVars, heapVars, objs, omVars, currentState, nextState,
                 shouldRun, windowShouldClose, shutdownLog, renderVars, otherVars, ui>>

\* LateUpdate returns, StateManager::Update returns, StateManager::Draw
\* enters the state's Draw hook
LateUpdate ==
  /\ pc = "lateUpdate"
  /\ pc' = "draw"
  /\ gs' = Call(currentState, "Draw")
  /\ UNCHANGED <<regVars, defVars, heapVars, objs, omVars, currentState, nextState,
                 shouldRun, windowShouldClose, shutdownLog, renderVars, otherVars, ui>>

\* rest of the iteration: sound update, SwapBuffers
FrameEnd ==
  /\ pc = "flushed"
  /\ pc' = "loop"
  /\ UNCHANGED <<regVars, defVars, heapVars, objs, omVars, currentState, engineVars,
                 renderVars, otherVars, ui>>

\* ------------------------------------------- SNAKE_Engine, StateManager
\* hooks of a GameState that run inside a transition or the shutdown
TransitionPhases == {"stateFree", "stateUnload", "stateLoad", "stateInit"}
ShutdownPhases == {"quitFree", "quitUnload"}
StatePhases == HookPhases \cup TransitionPhases \cup ShutdownPhases

\* main() calls Run
Run ==
  /\ pc = "main"
  /\ pc' = "loop"
  /\ UNCHANGED <<regVars, defVars, heapVars, objs, omVars, currentState, engineVars,
                 renderVars, otherVars, ui>>

\* content code hands a newly made state over; one queued before is destroyed
ChangeState(newState) ==
  /\ pc \in {"main"} \cup StatePhases
  /\ gs[newState].phase = "none"
  /\ \A s \in StateIds : s < newState => gs[s].phase # "none"
  /\ nextState' = newState
  /\ gs' = [s \in StateIds |->
              IF s = newState THEN Queued
              ELSE IF s = nextState THEN [gs[s] EXCEPT !.phase = "dropped"]
              ELSE gs[s]]
  /\ UNCHANGED <<regVars, defVars, heapVars, objs, omVars, currentState, pc,
                 shouldRun, windowShouldClose, shutdownLog, renderVars, otherVars, ui>>

RequestQuit ==
  /\ pc \in {"main"} \cup StatePhases
  /\ shouldRun' = FALSE
  /\ UNCHANGED <<regVars, defVars, heapVars, objs, omVars, currentState, pc,
                 nextState, gs, windowShouldClose, shutdownLog, renderVars, otherVars, ui>>

\* the user closes the window: PollEvents sets the flag at the top of an
\* iteration, after the loop condition was tested
CloseWindow ==
  /\ pc \in HookPhases \cup TransitionPhases
  /\ ~windowShouldClose
  /\ windowShouldClose' = TRUE
  /\ UNCHANGED <<regVars, defVars, heapVars, objs, omVars, currentState, pc,
                 nextState, gs, shouldRun, shutdownLog, renderVars, otherVars, ui>>

\* ObjectManager::FreeAll: Free and LateFree of every managed object, then
\* objects, objectMap and rawPtrObjects are cleared
FreeAll(os) ==
  [o \in DOMAIN os |-> IF o \in Range(objects) THEN Freed(o) ELSE os[o]]

\* StateManager::Update with a state queued and a state current: SystemFree
\* of the current state enters its Free hook
BeginTransition ==
  /\ pc = "loop"
  /\ LoopContinues
  /\ nextState # NULL /\ currentState # NULL
  /\ pc' = "stateFree"
  /\ gs' = [Waited(gs) EXCEPT ![currentState] = Hook(@, "Free")]
  /\ NewFrame(objs)
  /\ UNCHANGED <<regVars, defVars, heapVars, omVars, currentState, nextState,
                 shouldRun, windowShouldClose, shutdownLog, layerVars, renderMap, cullVars, managerVars, showDebugDraw,
                 ui>>

\* mutant: the old state is not unloaded
StateFree_NoUnload ==
  /\ pc = "stateFree"
  /\ pc' = "stateUnload"
  /\ objs' = FreeAll(objs)
  /\ objects' = <<>> /\ rawPtrObjects' = <<>>
  /\ UNCHANGED <<regVars, defVars, heapVars, pendingObjects, currentState, engineVars,
                 renderVars, otherVars, ui>>

\* Free returns; FreeAll; SystemUnload enters the Unload hook
StateFree ==
  /\ pc = "stateFree"
  /\ pc' = "stateUnload"
  /\ gs' = Call(currentState, "Unload")
  /\ objs' = FreeAll(objs)
  /\ objects' = <<>> /\ rawPtrObjects' = <<>>
  /\ UNCHANGED <<regVars, defVars, heapVars, pendingObjects, currentState, nextState,
                 shouldRun, windowShouldClose, shutdownLog, renderVars, otherVars, ui>>

\* Unload returns; all sounds are stopped; nextState is moved into
\* currentState, which destroys the old state: the CameraManager of the new
\* state is the current one; SystemLoad enters Load
StateUnload ==
  /\ pc = "stateUnload"
  /\ pc' = "stateLoad"
  /\ currentState' = nextState
  /\ nextState' = NULL
  /\ gs' = Call(nextState, "Load")
  /\ cameraMap' = NewCameraMap /\ activeCameraTag' = "main"
  /\ cameraCall' = [op |-> "CameraManager", tag |-> "main"]
  /\ UNCHANGED <<regVars, defVars, heapVars, objs, omVars, shouldRun,
                 windowShouldClose, shutdownLog, renderVars, cullVars, debugVars,
                 groupVars, gridVars, windowVars, ui>>

\* StateManager::Update with a state queued and no state current
FirstState ==
  /\ pc = "loop"
  /\ LoopContinues
  /\ nextState # NULL /\ currentState = NULL
  /\ pc' = "stateLoad"
  /\ currentState' = nextState
  /\ nextState' = NULL
  /\ gs' = [Waited(gs) EXCEPT ![nextState] = Hook(@, "Load")]
  /\ NewFrame(objs)
  /\ cameraMap' = NewCameraMap /\ activeCameraTag' = "main"
  /\ cameraCall' = [op |-> "CameraManager", tag |-> "main"]
  /\ UNCHANGED <<regVars, defVars, heapVars, omVars, shouldRun, windowShouldClose,
                 shutdownLog, layerVars, renderMap, cullVars, groupVars, gridVars,
                 windowVars, showDebugDraw, ui>>

\* Load returns; SystemInit enters the Init hook
StateLoad ==
  /\ pc = "stateLoad"
  /\ pc' = "stateInit"
  /\ gs' = Call(currentState, "Init")
  /\ UNCHANGED <<regVars, defVars, heapVars, objs, omVars, currentState, nextState,
                 shouldRun, windowShouldClose, shutdownLog, renderVars, otherVars, ui>>

\* Init returns; InitAll, LateInit, AddAllPendingObjects; the cameras get
\* the window size; SystemUpdate enters the Update hook
\* mutant: the cameras of the new state keep the sizes they were made with
StateInit_NoScreenSize ==
  /\ pc = "stateInit"
  /\ pc' = "stateUpdate"
  /\ gs' = Call(currentState, "Update")
  /\ objects' = AddAllPendingObjects
  /\ pendingObjects' = <<>>
  /\ rawPtrObjects' = objects'
  /\ UNCHANGED <<regVars, defVars, heapVars, objs, currentState, nextState,
                 shouldRun, windowShouldClose, shutdownLog, renderVars, otherVars, ui>>

StateInit ==
  /\ pc = "stateInit"
  /\ pc' = "stateUpdate"
  /\ gs' = Call(currentState, "Update")
  /\ objects' = AddAllPendingObjects
  /\ pendingObjects' = <<>>
  /\ rawPtrObjects' = objects'
  /\ cameraMap' = SizedForAll(cameraMap, windowWidth, windowHeight)
  /\ cameraCall' = [op |-> "SetScreenSizeForAll", tag |-> ""]
  /\ UNCHANGED <<regVars, defVars, heapVars, objs, currentState, nextState,
                 shouldRun, windowShouldClose, shutdownLog, renderVars, cullVars,
                 debugVars, groupVars, gridVars, activeCameraTag, windowVars, ui>>

\* the window is resized: PollEvents, at the top of an iteration of Run,
\* invokes the callback with the new size of the framebuffer
framebuffer_size_callback(width, height) ==
  /\ pc = "loop"
  /\ LoopContinues
  /\ windowWidth' = width /\ windowHeight' = height
  /\ IF currentState # NULL
     THEN /\ cameraMap' = SizedForAll(cameraMap, width, height)
          /\ cameraCall' = [op |-> "SetScreenSizeForAll", tag |-> ""]
     ELSE UNCHANGED <<cameraMap, cameraCall>>
  /\ UNCHANGED <<regVars, defVars, heapVars, objs, omVars, stateVars, renderVars,
                 cullVars, debugVars, groupVars, gridVars, activeCameraTag, ui>>

\* GameState::Restart, called from the state's Update or LateUpdate:
\* SystemFree (Free, FreeAll), then SystemInit (Init, InitAll, LateInit,
\* AddAllPendingObjects)
Restart ==
  /\ pc \in {"stateUpdate", "lateUpdate"}
  /\ gs' = [gs EXCEPT ![currentState] = Hook(Hook(@, "Free"), "Init")]
  /\ objs' = FreeAll(objs)
  /\ objects' = pendingObjects
  /\ pendingObjects' = <<>>
  /\ rawPtrObjects' = objects'
  /\ UNCHANGED <<regVars, defVars, heapVars, currentState, pc, nextState,
                 shouldRun, windowShouldClose, shutdownLog, renderVars, otherVars, ui>>

\* the loop condition fails: soundManager.Free, then stateManager.Free
\* enters the Free hook of the current state
ShutdownBegin ==
  /\ pc = "loop"
  /\ ~LoopContinues
  /\ currentState # NULL
  /\ pc' = "quitFree"
  /\ shutdownLog' = shutdownLog \o <<"soundManager.Free">>
  /\ gs' = Call(currentState, "Free")
  /\ UNCHANGED <<regVars, defVars, heapVars, objs, omVars, currentState, nextState,
                 shouldRun, windowShouldClose, renderVars, otherVars, ui>>

QuitFree ==
  /\ pc = "quitFree"
  /\ pc' = "quitUnload"
  /\ gs' = Call(currentState, "Unload")
  /\ objs' = FreeAll(objs)
  /\ objects' = <<>> /\ rawPtrObjects' = <<>>
  /\ UNCHANGED <<regVars, defVars, heapVars, pendingObjects, currentState, nextState,
                 shouldRun, windowShouldClose, shutdownLog, renderVars, otherVars, ui>>

\* Unload returns, stateManager.Free returns; windowManager.Free; Free; Run
\* returns
QuitUnload ==
  /\ pc = "quitUnload"
  /\ pc' = "done"
  /\ shutdownLog' = shutdownLog \o <<"stateManager.Free", "windowManager.Free", "Free">>
  /\ UNCHANGED <<regVars, defVars, heapVars, objs, omVars, currentState, nextState,
                 gs, shouldRun, windowShouldClose, renderVars, otherVars, ui>>

\* the loop condition fails with no state current
ShutdownNoState ==
  /\ pc = "loop"
  /\ ~LoopContinues
  /\ currentState = NULL
  /\ pc' = "done"
  /\ shutdownLog' = shutdownLog \o
       <<"soundManager.Free", "stateManager.Free", "windowManager.Free", "Free">>
  /\ UNCHANGED <<regVars, defVars, heapVars, objs, omVars, currentState, nextState,
                 gs, shouldRun, windowShouldClose, renderVars, otherVars, ui>>


\* --------------------------------------------------- render specification
\* Init: main() has registered a shader that supports instancing, and a
\* material using it, under the tag "a"; the current state has been loaded
\* and initialised, its objects carry the default mesh and material; Run is
\* at the top of its loop.
RenderObjIds == 1 .. MaxRenderObj
ConfiguredObject ==
  [NewObject("GAME", NULL) EXCEPT !.material = 31, !.mesh = 41]
InitRender ==
  /\ shaderMap = Put(InitShaderMap, "a", 15)
  /\ textureMap = [t \in {"[EngineTexture]error"} |-> 21]
  /\ materialMap = Put([t \in {"[EngineMaterial]error"} |-> 31], "a", 32)
  /\ meshMap = [t \in {"[EngineMesh]default"} |-> 41]
  /\ spritesheetMap = [t \in {"[EngineSpriteSheet]default"} |-> 51]
  /\ fontMap = [t \in {} |-> NULL]
  /\ errorTexture = 21 /\ defaultMaterial = 31 /\ defaultMesh = 41
  /\ defaultSpriteSheet = 51
  /\ defaultShader \in {NULL, WildPtr}
  /\ heap = [h \in (DOMAIN InitHeap) \cup {15, 32} |->
               IF h = 15 THEN ShaderRes(TRUE)
               ELSE IF h = 32 THEN MaterialRes(15, {})
               ELSE InitHeap[h]]
  /\ freed = {}
  /\ RenderLayerManagerInit /\ RenderMapInit /\ ui = 0
  /\ CollisionGroupRegistryInit
  /\ pc = "loop" /\ currentState = 1 /\ EngineInit(1, Entered)
  /\ objs = [o \in RenderObjIds |-> ConfiguredObject]
  /\ objects = SeqOfSet(RenderObjIds)
  /\ rawPtrObjects = objects
  /\ pendingObjects = <<>>

NextRender ==
  \/ \E tag \in LayerRegTags, layer \in {0, 1, MAX_LAYERS} : RegisterRenderLayer(tag, layer)
  \/ \E tag \in LayerRegTags : UnregisterRenderLayer(tag)
  \/ \E o \in RenderObjIds, tag \in LayerRegTags : SetRenderLayer(o, tag)
  \/ \E o \in RenderObjIds, tag \in UserTags : SetMaterial(o, tag)
  \/ \E o \in RenderObjIds : AttachAnimator(o, "b")
  \/ EnableInstancing("a", TRUE)    \* a request to disable changes no flag
  \/ RunFrameBegin
  \/ GameStateUpdate
  \/ ObjectUpdate
  \/ UpdateAllTail
  \/ CheckCollision
  \/ LateUpdate
  \/ DrawAll
  \/ \E o \in RenderObjIds : Submit(<<o>>)
  \/ FlushDrawCommands
  \/ FrameEnd

SpecRender == InitRender /\ [][NextRender]_vars


\* ------------------------------------------------ properties of rendering
\* the batch identity of an object, read from the object itself
IdentityOf(o) ==
  [layer |-> IF objs[o].renderLayerTag \in DOMAIN nameToID
             THEN nameToID[objs[o].renderLayerTag] ELSE 0,
   shader |-> IF objs[o].material = NULL THEN NULL ELSE heap[objs[o].material].shader,
   mesh |-> objs[o].mesh, material |-> objs[o].material,
   spriteSheet |-> objs[o].sheet]
IsDrawable(o) ==
  /\ objs[o].isVisible /\ objs[o].material # NULL /\ objs[o].mesh # NULL
  /\ heap[objs[o].material].shader # NULL
CallIdentity(c) ==
  [layer |-> c.layer, shader |-> c.shader, mesh |-> c.key.mesh,
   material |-> c.key.material, spriteSheet |-> c.key.spriteSheet]
\* the drawables submitted this frame with identity id, in submission order
LoggedBatch(id) ==
  SelectSeq(submitLog, LAMBDA e : IsDrawable(e[1]) /\ IdentityOf(e[1]) = id)
LoggedIdentities ==
  {IdentityOf(submitLog[i][1]) : i \in {j \in DOMAIN submitLog : IsDrawable(submitLog[j][1])}}
\* the batch lists of the render map, each with the identity it is filed under
MapBatches ==
  UNION {UNION {{[id |-> [layer |-> layer, shader |-> sh, mesh |-> k.mesh,
                          material |-> k.material, spriteSheet |-> k.spriteSheet],
                  batch |-> renderMap[layer][sh][k]]
                 : k \in DOMAIN renderMap[layer][sh]}
                : sh \in DOMAIN renderMap[layer]}
         : layer \in Layers}

\* C1: the draw calls of a flush are issued in ascending layer order: every
\* call for an object of layer L1 comes before any call for an object of a
\* layer L2 > L1.
C1_LayerDrawOrder ==
  /\ \A i \in DOMAIN drawLog : \A k \in DOMAIN drawLog[i].objs :
       IdentityOf(drawLog[i].objs[k]).layer = drawLog[i].layer
  /\ \A i, j \in DOMAIN drawLog :
       drawLog[i].layer < drawLog[j].layer => i < j

\* a flush has drawn objects of two different layers
C1_Witness ==
  /\ pc = "flushed"
  /\ \E i, j \in DOMAIN drawLog : drawLog[i].layer < drawLog[j].layer

\* C2: while a frame's submissions are collected, the render map holds exactly
\* one batch list per identity (layer, shader, mesh, material, spritesheet) of
\* a submitted drawable, and that list is the drawables of that identity in
\* submission order.
C2_BatchGrouping ==
  pc = "draw" =>
    /\ \A b \in MapBatches :
         [i \in DOMAIN b.batch |-> <<b.batch[i][1], b.batch[i][2]>>] = LoggedBatch(b.id)
    /\ \A id \in LoggedIdentities : \E b \in MapBatches : b.id = id
    /\ \A b1, b2 \in MapBatches : b1.id = b2.id => b1 = b2

\* two different objects with a sprite sheet share one batch, in an order of
\* submission that is not the order of the object list
C2_Witness ==
  /\ pc = "draw"
  /\ \E b \in MapBatches :
       /\ Len(b.batch) >= 2 /\ b.batch[1][1] > b.batch[2][1]
       /\ objs[b.batch[1][1]].sheet # NULL

\* C3: a batch is drawn by one instanced call covering the whole batch if and
\* only if the material of its first object has instancing enabled and the
\* material's shader supports instancing; otherwise by one call per object,
\* in batch order.
InstancingOn(o) ==
  /\ heap[objs[o].material].isInstancingEnabled
  /\ heap[heap[objs[o].material].shader].supportsInstancing
CallsOf(id) == SelectSeq(drawLog, LAMBDA c : CallIdentity(c) = id)
C3_InstancedIffEligible ==
  pc = "flushed" =>
    /\ \A i \in DOMAIN drawLog : CallIdentity(drawLog[i]) \in LoggedIdentities
    /\ \A id \in LoggedIdentities :
         LET batch == LoggedBatch(id)
             calls == CallsOf(id)
         IN IF InstancingOn(batch[1][1])
            THEN /\ Len(calls) = 1
                 /\ calls[1].instanced
                 /\ calls[1].objs = [k \in DOMAIN batch |-> batch[k][1]]
            ELSE /\ Len(calls) = Len(batch)
                 /\ \A k \in DOMAIN calls :
                      ~calls[k].instanced /\ calls[k].objs = << batch[k][1] >>

\* one flush has drawn a batch of two by one instanced call and another
\* batch of two by individual calls
C3_Witness ==
  /\ pc = "flushed"
  /\ \E i \in DOMAIN drawLog : drawLog[i].instanced /\ Len(drawLog[i].objs) >= 2
  /\ \E i, j \in DOMAIN drawLog :
       /\ i # j /\ ~drawLog[i].instanced /\ ~drawLog[j].instanced
       /\ CallIdentity(drawLog[i]) = CallIdentity(drawLog[j])

\* C4: once FlushDrawCommands has returned every layer's batch map is empty
\* until the next frame's submissions, and everything a flush draws was
\* submitted in the same frame.
C4_RenderMapTransient ==
  /\ pc # "draw" => \A layer \in Layers : DOMAIN renderMap[layer] = {}
  /\ \A i \in DOMAIN drawLog : \A k \in DOMAIN drawLog[i].objs :
       \E j \in DOMAIN submitLog : submitLog[j][1] = drawLog[i].objs[k]
  /\ Len(Flatten([i \in DOMAIN drawLog |-> drawLog[i].objs])) <= Len(submitLog)

\* a flush that drew something has returned
C4_Witness ==
  /\ pc = "flushed"
  /\ drawLog # <<>>
  /\ \A layer \in Layers : DOMAIN renderMap[layer] = {}


\* ------------------------------------------------ lifecycle specification
\* Init: Run is at the top of its loop; the current state has been loaded and
\* initialised, and its ObjectManager holds the objects SystemInit integrated.
FrameObjIds == 1 .. MaxFrameObj
InitFrame ==
  /\ RenderManagerInit
  /\ RenderLayerManagerInit /\ RenderMapInit /\ ui = 0
  /\ CollisionGroupRegistryInit
  /\ pc = "loop" /\ currentState = 1 /\ EngineInit(1, Entered)
  /\ \E active \in SUBSET FrameObjIds :
       /\ objs = [o \in FrameObjIds |-> IF o \in active THEN ConfiguredObject ELSE Unborn]
       /\ objects = SeqOfSet(active)
  /\ rawPtrObjects = objects
  /\ pendingObjects = <<>>

NextFrame ==
  \/ RunFrameBegin
  \/ GameStateUpdate
  \/ ObjectUpdate
  \/ UpdateAllTail
  \/ CheckCollision
  \/ LateUpdate
  \/ DrawAll
  \/ FlushDrawCommands
  \/ FrameEnd
  \/ \E o \in FrameObjIds : AddObject(o, ConfiguredObject)
  \/ \E o \in FrameObjIds : Kill(o)

SpecFrame == InitFrame /\ [][NextFrame]_vars

\* --------------------------------------------- properties of the lifecycle
Drawn(o) == \E i \in DOMAIN drawLog : \E k \in DOMAIN drawLog[i].objs : drawLog[i].objs[k] = o
Submitted(o) == \E i \in DOMAIN submitLog : submitLog[i][1] = o
IsPending(o) == o \in Range(pendingObjects)

\* C9: an object given to AddObject during a frame is still queued, and has
\* been neither updated nor submitted nor drawn, for the rest of that frame;
\* an object queued in an earlier frame is integrated before this frame's
\* update pass updates anything.
C9_AddedObjectWaitsForNextFrame ==
  \A o \in DOMAIN objs :
    /\ objs[o].added =>
         (IsPending(o) /\ ~objs[o].updated /\ ~Submitted(o) /\ ~Drawn(o))
    /\ (IsPending(o) /\ ~objs[o].added) =>
         ~\E p \in DOMAIN objs : objs[p].updated

\* C10 as claimed: at the end of a frame every object killed during that
\* frame has received Free, then LateFree, once each, and has been erased.
C10_KilledErasedSameFrame ==
  pc = "loop" =>
    \A o \in DOMAIN objs :
      objs[o].killed =>
        /\ objs[o].life = "erased"
        /\ objs[o].hooks = <<"Free", "LateFree">>
        /\ ~InManager(o)

\* C10 as amended: a killed object is freed (Free, then LateFree, once each)
\* and erased by the EraseDeadObjects pass that ends the next UpdateAll: once
\* UpdateAll has returned, the only dead objects the ObjectManager still holds
\* were killed after it, in the collision, late-update or draw phase of the
\* same frame, and they are gone when the following frame's UpdateAll returns.
AfterUpdateAll == {"collision", "lateUpdate", "draw", "flushed", "loop"}
C10_KilledErasedByNextUpdateAll ==
  \A o \in DOMAIN objs :
    /\ objs[o].hooks \in {<<>>, <<"Free", "LateFree">>}
    /\ objs[o].life = "erased" <=> objs[o].hooks = <<"Free", "LateFree">>
    /\ objs[o].life = "erased" => (~InManager(o) /\ o \notin Range(rawPtrObjects))
    /\ (InManager(o) /\ ~objs[o].isAlive /\ pc \in AfterUpdateAll) =>
         (objs[o].killed /\ objs[o].killedIn \in {"collision", "lateUpdate", "draw"})
    /\ (~objs[o].isAlive /\ objs[o].killedIn \in {"stateUpdate", "updateAll"}
          /\ pc \in AfterUpdateAll) => objs[o].life = "erased"

\* an object killed while OnCollision was dispatched was still held at the
\* end of that frame and has been freed and erased by the next UpdateAll
C10_Witness ==
  /\ pc = "collision"
  /\ \E o \in DOMAIN objs :
       /\ objs[o].killedIn = "collision" /\ ~objs[o].killed
       /\ objs[o].life = "erased"
       /\ objs[o].hooks = <<"Free", "LateFree">>

\* C11: once Kill() has been called on an object, no step gives the object
\* a further Update call or issues a further draw call for it.
C11_NoUpdateOrDrawAfterKill ==
  [][\A o \in DOMAIN objs :
       (objs[o].life = "live" /\ ~objs[o].isAlive /\ objs'[o].life = "live")
         => /\ objs'[o].updated => objs[o].updated
            /\ Drawn(o)' => Drawn(o)
    ]_vars


\* -------------------------------------------------- engine specification
\* Init: main() has initialised the engine; no state exists yet, no object
\* is ever created
InitEngine ==
  /\ RenderManagerInit
  /\ RenderLayerManagerInit /\ RenderMapInit /\ ui = 0
  /\ CollisionGroupRegistryInit
  /\ objs = [o \in ObjIds |-> Unborn]
  /\ objects = <<>> /\ pendingObjects = <<>> /\ rawPtrObjects = <<>>
  /\ pc = "main" /\ currentState = NULL /\ EngineInit(NULL, NewState)

\* the steps Run and StateManager take on their own
EngineStep ==
  \/ Run
  \/ FirstState
  \/ BeginTransition
  \/ StateFree
  \/ StateUnload
  \/ StateLoad
  \/ StateInit
  \/ RunFrameBegin
  \/ GameStateUpdate
  \/ UpdateAllTail
  \/ CheckCollision
  \/ LateUpdate
  \/ FlushDrawCommands
  \/ FrameEnd
  \/ ShutdownBegin
  \/ QuitFree
  \/ QuitUnload
  \/ ShutdownNoState

NextEngine ==
  \/ EngineStep
  \/ \E s \in StateIds : ChangeState(s)
  \/ RequestQuit
  \/ CloseWindow
  \/ Restart

SpecEngine == InitEngine /\ [][NextEngine]_vars

\* Run and StateManager are straight-line code around the hooks: a step of
\* theirs that can be taken is taken
SpecEngineLive == SpecEngine /\ WF_vars(EngineStep)

\* ------------------------------------------------ properties of the engine
\* C12: ChangeState only queues the state: the step leaves the current
\* state, its position in the frame and its objects as they are; the current
\* state changes only in the transition at the start of StateManager::Update,
\* before any hook of SystemUpdate; and while SystemUpdate and Draw of a
\* frame run, no state that was queued before that iteration is still queued.
FramePhases == HookPhases \cup {"flushed"}
C12_ChangeStateOnlyQueues ==
  /\ [][((nextState' # nextState /\ nextState' # NULL) =>
            (/\ currentState' = currentState /\ pc' = pc
             /\ objs' = objs /\ omVars' = omVars
             /\ (currentState # NULL => gs'[currentState] = gs[currentState])))
        /\ (currentState' # currentState =>
              (/\ pc \in {"loop", "stateUnload"} /\ pc' = "stateLoad"
               /\ currentState' = nextState))
       ]_vars
  /\ []((pc \in FramePhases /\ nextState # NULL) => ~gs[nextState].stale)

\* state 2 was queued while state 1 was current, waited for the next
\* StateManager::Update and is now in the first Update hook of its own
C12_Witness ==
  /\ pc = "stateUpdate" /\ currentState = 2
  /\ gs[2].stale /\ gs[2].prev = "Init" /\ gs[2].phase = "Update"
  /\ gs[1].loads = 1 /\ gs[1].phase = "Unload"

\* the lifecycle hooks a state has received so far are in order: `after`
\* gives, for each hook, the hooks that may directly precede it
Lifecycle == {"Load", "Init", "Update", "Draw", "Free", "Unload"}
InOrder(after) ==
  \A s \in StateIds :
    /\ gs[s].phase \in Lifecycle => gs[s].prev \in after[gs[s].phase]
    /\ gs[s].phase \in Lifecycle <=> gs[s].loads = 1
    /\ gs[s].phase \notin Lifecycle => gs[s].loads = 0
    /\ gs[s].unloads = IF gs[s].phase = "Unload" THEN 1 ELSE 0
    /\ (pc = "done" /\ gs[s].loads = 1) => gs[s].phase = "Unload"
\* a state is loaded only when every state loaded before it is unloaded
OneLoaded ==
  Cardinality({s \in StateIds : gs[s].loads > 0 /\ gs[s].phase # "Unload"}) <= 1

\* C13 as claimed: every state that becomes current receives Load, Init,
\* any number of Update and Draw, Free, Unload in that order, Load and Unload
\* once each, and the old state is unloaded before the new one is loaded.
C13_LifecycleOrder ==
  /\ InOrder([h \in Lifecycle |->
               CASE h = "Load" -> {"queued"}
                 [] h = "Init" -> {"Load"}
                 [] h \in {"Update", "Draw"} -> {"Init", "Update", "Draw"}
                 [] h = "Free" -> {"Init", "Update", "Draw"}
                 [] h = "Unload" -> {"Free"}])
  /\ OneLoaded

\* C13 as amended: as claimed, except that a Free may also be followed by
\* a further Init (GameState::Restart).
C13_LifecycleOrderWithRestart ==
  /\ InOrder([h \in Lifecycle |->
               CASE h = "Load" -> {"queued"}
                 [] h = "Init" -> {"Load", "Free"}
                 [] h \in {"Update", "Draw"} -> {"Init", "Update", "Draw"}
                 [] h = "Free" -> {"Init", "Update", "Draw"}
                 [] h = "Unload" -> {"Free"}])
  /\ OneLoaded

\* state 1 was freed and unloaded, then state 2 was loaded; state 2 has
\* just restarted inside its Update or LateUpdate hook
C13_Witness ==
  /\ pc \in {"stateUpdate", "lateUpdate"} /\ currentState = 2
  /\ gs[1].phase = "Unload" /\ gs[1].unloads = 1
  /\ gs[2].phase = "Init" /\ gs[2].prev = "Free" /\ gs[2].loads = 1

\* C14: RequestQuit only clears shouldRun; the iteration it is called in
\* goes on to its end, the shutdown being entered from the loop condition
\* only; once shouldRun is false no iteration is started; Run then makes its
\* four shutdown calls, each once and in order, and returns.
ShutdownSequence ==
  <<"soundManager.Free", "stateManager.Free", "windowManager.Free", "Free">>
C14_QuitFinishesFrameThenShutsDown ==
  /\ [][(shouldRun' # shouldRun =>
            (/\ ~shouldRun' /\ pc' = pc /\ currentState' = currentState
             /\ nextState' = nextState /\ gs' = gs /\ shutdownLog' = shutdownLog
             /\ objs' = objs /\ omVars' = omVars /\ renderVars' = renderVars /\ otherVars' = otherVars))
        /\ ((~shouldRun /\ pc = "loop") => pc' \in {"loop", "quitFree", "done"})
        /\ ((pc' \in ShutdownPhases \cup {"done"} /\ pc' # pc) =>
              pc \in {"loop"} \cup ShutdownPhases)
        /\ pc # "done"
       ]_vars
  /\ [](\E n \in 0 .. 4 : shutdownLog = SubSeq(ShutdownSequence, 1, n))
  /\ [](pc = "done" <=> shutdownLog = ShutdownSequence)
  /\ (~shouldRun ~> pc = "done")

\* RequestQuit was called after this iteration began, and the iteration
\* has gone on through the state's update and the flush of its draw calls
C14_Witness ==
  /\ pc = "flushed" /\ ~shouldRun /\ ~windowShouldClose
  /\ currentState # NULL /\ gs[currentState].phase = "Draw"
  /\ shutdownLog = <<>>

\* --------------------------------------- properties of rendering (continued)
\* the <<object, camera>> pair is queued in the batch of the object's
\* shader and key in layer 0
QueuedInLayerZero(entry) ==
  LET o == entry[1] IN
  /\ ShaderOf(o) \in DOMAIN renderMap[0]
  /\ KeyOf(o) \in DOMAIN renderMap[0][ShaderOf(o)]
  /\ entry \in Range(renderMap[0][ShaderOf(o)][KeyOf(o)])

\* C15: a submitted visible object with a valid material, mesh and shader
\* whose render-layer tag is not registered is queued in layer 0, and
\* BuildRenderMap has logged a warning.
C15_UnregisteredLayerGoesToLayerZero ==
  pc = "draw" =>
    \A i \in DOMAIN submitLog :
      (IsDrawable(submitLog[i][1]) /\ ~HasLayer(objs[submitLog[i][1]].renderLayerTag))
        => (QueuedInLayerZero(submitLog[i]) /\ warnLog # {})

\* --------------------------------------------------- layer specification
\* content code registers and unregisters render layers in any order; the
\* names include the empty string, the ids are values of uint8_t
LayerNames == {"", "bg", "fg"}
LayerIds == {0, 1, MAX_LAYERS - 1, MAX_LAYERS, 255}
NextLayers ==
  \/ \E tag \in LayerNames, layer \in LayerIds : RegisterRenderLayer(tag, layer)
  \/ \E tag \in LayerNames : UnregisterRenderLayer(tag)
SpecLayers == InitEngine /\ [][NextLayers]_vars

\* a RegisterLayer call that the code accepted: it added a mapping
Registers(tag, layer) == RegisterRenderLayer(tag, layer) /\ nameToID' # nameToID

\* C16: a pair (tag, id) that RegisterLayer accepted answers GetLayerID(tag)
\* = id and GetLayerName(id) = tag from the accepting call on, and keeps
\* doing so under every further RegisterLayer and UnregisterLayer call until
\* the tag itself is unregistered.
C16_RegisteredPairRoundTrips ==
  /\ [][\A tag \in LayerNames, layer \in LayerIds :
          Registers(tag, layer)
            => (HasLayer(tag)' /\ GetLayerID(tag)' = layer
                  /\ GetLayerName(layer)' = tag)]_vars
  /\ [][\A tag \in DOMAIN nameToID :
          (\A name \in LayerNames : ~(UnregisterRenderLayer(name) /\ name = tag))
            => (HasLayer(tag)' /\ GetLayerID(tag)' = GetLayerID(tag))]_vars
  /\ [](\A tag \in DOMAIN nameToID : GetLayerName(GetLayerID(tag)) = tag)

\* C17: a RegisterLayer(tag, id) call whose tag is already registered, whose
\* id is outside 0..15, or whose id is the id of a registered tag, is
\* rejected: it leaves the name->ID map and the ID->name array as they were.
C17_RejectedRegisterChangesNothing ==
  [][\A tag \in LayerNames, layer \in LayerIds :
       (/\ RegisterRenderLayer(tag, layer)
        /\ \/ HasLayer(tag)
           \/ layer \notin Layers
           \/ \E other \in DOMAIN nameToID : GetLayerID(other) = layer)
         => UNCHANGED layerVars]_vars

\* C18: UnregisterLayer(tag) for a registered tag removes the tag's name->ID
\* entry and empties the ID->name slot of its id; for a tag that is not
\* registered it changes nothing; and an id that no registered tag has is
\* accepted when it is registered under a name that is not registered.
C18_UnregisterFreesId ==
  /\ [][\A name \in LayerNames :
          UnregisterRenderLayer(name)
            => IF HasLayer(name)
               THEN /\ ~HasLayer(name)'
                    /\ \E id \in Layers :
                         id = GetLayerID(name) /\ GetLayerName(id)' = ""
                    /\ \A other \in DOMAIN nameToID \ {name} :
                         HasLayer(other)' /\ GetLayerID(other)' = GetLayerID(other)
               ELSE UNCHANGED layerVars]_vars
  /\ [][\A tag \in LayerNames, layer \in Layers :
          (/\ RegisterRenderLayer(tag, layer)
           /\ ~HasLayer(tag)
           /\ \A other \in DOMAIN nameToID : GetLayerID(other) # layer)
            => (HasLayer(tag)' /\ GetLayerID(tag)' = layer
                  /\ GetLayerName(layer)' = tag)]_vars
\* two names share an id only after the empty name was registered at it; the
\* empty name is gone here, so UnregisterLayer("") has removed it, and the id
\* has then been registered again under another name
C18_Witness ==
  /\ ~HasLayer("")
  /\ HasLayer("bg") /\ HasLayer("fg")
  /\ GetLayerID("bg") = GetLayerID("fg")
  /\ GetLayerName(GetLayerID("fg")) = "fg"

\* ------------------------------------------------- culling specification
\* Init: the current state is in its Update hook and holds objects of every
\* kind the loop of CullVisible tells apart; a caller then culls lists of
\* them into one vector it keeps, and content code shows and hides objects.
CullObjIds == 1 .. MaxCull
CullInputs == UNION {[1 .. n -> CullObjIds] : n \in 0 .. MaxCull}
CullCases ==
  {ConfiguredObject,
   [ConfiguredObject EXCEPT !.isAlive = FALSE],
   [ConfiguredObject EXCEPT !.isVisible = FALSE],
   [ConfiguredObject EXCEPT !.inView = FALSE],
   [ConfiguredObject EXCEPT !.inView = FALSE, !.ignoreCamera = TRUE]}
InitCull ==
  /\ RenderManagerInit
  /\ RenderLayerManagerInit /\ RenderMapInit /\ ui = 0
  /\ CollisionGroupRegistryInit
  /\ objs \in [CullObjIds -> CullCases]
  /\ objects = SeqOfSet(CullObjIds)
  /\ rawPtrObjects = objects
  /\ pendingObjects = <<>>
  /\ pc = "stateUpdate" /\ currentState = 1
  /\ EngineInit(1, Hook(Entered, "Update"))

CullVisibleCall(allObjects) ==
  /\ outVisibleList' = CullVisible(allObjects, outVisibleList)
  /\ UNCHANGED <<regVars, defVars, heapVars, objs, omVars, stateVars, layerVars,
                 batchVars, debugVars, managerVars, ui>>

NextCull ==
  \/ \E allObjects \in CullInputs : CullVisibleCall(allObjects)
  \/ \E o \in CullObjIds, isVisible \in BOOLEAN : SetVisibility(o, isVisible)
SpecCull == InitCull /\ [][NextCull]_vars

\* C19: after each CullVisible call the output list is the input list
\* restricted, in input order, to the objects that are alive and visible and
\* either ignore the camera or pass the in-view test; nothing the list held
\* before the call is left in it.
C19_CullVisibleOutput ==
  [][\A allObjects \in CullInputs :
       CullVisibleCall(allObjects)
         => outVisibleList' =
              SelectSeq(allObjects,
                        LAMBDA o : /\ objs[o].isAlive /\ objs[o].isVisible
                                   /\ (objs[o].ignoreCamera \/ objs[o].inView))]_vars
\* the list holds, in input order and not in id order, an object that is out
\* of view but ignores the camera, and one that is in view
C19_Witness ==
  /\ Len(outVisibleList) = 2
  /\ outVisibleList[1] > outVisibleList[2]
  /\ objs[outVisibleList[1]].ignoreCamera /\ ~objs[outVisibleList[1]].inView
  /\ objs[outVisibleList[2]].inView /\ ~objs[outVisibleList[2]].ignoreCamera

\* ---------------------------------------------- instancing specification
\* content code switches instancing of the material "a" on and off and gives
\* the material to objects; frames draw the objects
NextInstancing ==
  \/ \E enable \in BOOLEAN : EnableInstancing("a", enable)
  \/ \E o \in RenderObjIds, tag \in UserTags : SetMaterial(o, tag)
  \/ RunFrameBegin
  \/ GameStateUpdate
  \/ ObjectUpdate
  \/ UpdateAllTail
  \/ CheckCollision
  \/ LateUpdate
  \/ DrawAll
  \/ FlushDrawCommands
  \/ FrameEnd
SpecInstancing == InitRender /\ [][NextInstancing]_vars

\* C20: a flush issues no instanced draw call for a material whose
\* instancing is disabled, that is, a material for which EnableInstancing
\* was never called with true or was last called with false.
C20_DisabledMaterialNeverInstanced ==
  pc = "flushed" =>
    \A i \in DOMAIN drawLog :
      drawLog[i].instanced => heap[drawLog[i].key.material].instancingAsked

\* ---------------------------------------------- debug line specification
\* frames of the current state; its hooks queue debug lines under two
\* cameras and two widths and switch the engine's debug draws on and off
DebugCameras == {NULL, MainCamera}
DebugWidths == {1, 2}
NextDebug ==
  \/ \E camera \in DebugCameras, lineWidth \in DebugWidths :
       DrawDebugLine(camera, lineWidth)
  \/ \E shouldShow \in BOOLEAN : RenderDebugDraws(shouldShow)
  \/ RunFrameBegin
  \/ GameStateUpdate
  \/ ObjectUpdate
  \/ UpdateAllTail
  \/ CheckCollision
  \/ LateUpdate
  \/ FlushDrawCommands
  \/ FrameEnd
SpecDebug == InitRender /\ [][NextDebug]_vars

\* C21: no debug line is in the queue, or is drawn, in a frame later than
\* the frame DrawDebugLine queued it in.
C21_NoDebugLineRetained ==
  /\ \A q \in QueuedLines : ~debugLineMap[q[1]][q[2]].old
  /\ \A i \in DOMAIN debugDrawLog :
       \A j \in DOMAIN debugDrawLog[i].lines : ~debugDrawLog[i].lines[j].old

\* ------------------------------------------------ CollisionGroupRegistry
MAX_GROUPS == 32                        \* one bit per slot of a uint32_t
\* a uint32_t is the set of the positions of its set bits: 0 is {}, and
\* a & b is the intersection
GroupBit(n) == IF n < 32 THEN {n} ELSE {}   \* 1 << n, as a uint32_t
GetGroupTag(bit) == IF bit \in DOMAIN bitToTag THEN bitToTag[bit] ELSE 0

GroupsExhausted_Never == FALSE
\* every bit of the uint32_t is assigned
GroupsExhausted == currentBit >= MAX_GROUPS

GetGroupBit_SameBit(tag) ==
  LET bit == IF tag \in DOMAIN tagToBit THEN tagToBit[tag]
             ELSE IF GroupsExhausted THEN {}
             ELSE GroupBit(currentBit)
      allocates == tag \notin DOMAIN tagToBit /\ ~GroupsExhausted
  IN
  /\ pc \in ContentPhases
  /\ groupCall' = [tag |-> tag, bit |-> bit]
  /\ IF allocates
     THEN /\ tagToBit' = Put(tagToBit, tag, bit)
          /\ bitToTag' = Put(bitToTag, bit, tag)
          /\ currentBit' = currentBit
     ELSE UNCHANGED <<tagToBit, bitToTag, currentBit>>
  /\ UNCHANGED <<regVars, defVars, heapVars, objs, omVars, stateVars, renderVars,
                 cullVars, debugVars, windowVars, gridVars, cameraVars, ui>>
\* GetGroupBit(tag): the bit of a known tag; else the next unused bit,
\* recorded both ways; 0 and no allocation once every bit is assigned
GetGroupBit(tag) ==
  LET bit == IF tag \in DOMAIN tagToBit THEN tagToBit[tag]
             ELSE IF GroupsExhausted THEN {}
             ELSE GroupBit(currentBit)
      allocates == tag \notin DOMAIN tagToBit /\ ~GroupsExhausted
  IN
  /\ pc \in ContentPhases
  /\ groupCall' = [tag |-> tag, bit |-> bit]
  /\ IF allocates
     THEN /\ tagToBit' = Put(tagToBit, tag, bit)
          /\ bitToTag' = Put(bitToTag, bit, tag)
          /\ currentBit' = currentBit + 1
     ELSE UNCHANGED <<tagToBit, bitToTag, currentBit>>
  /\ UNCHANGED <<regVars, defVars, heapVars, objs, omVars, stateVars, renderVars,
                 cullVars, debugVars, windowVars, gridVars, cameraVars, ui>>

\* ---------------------------------------- collision group specification
\* Init: main() has initialised the engine and content code has already
\* requested the bits of the tags 1 .. n, in this order; content code then
\* requests the bits of known and of new tags
GroupTags == {1, MAX_GROUPS} \cup (MAX_GROUPS + 1 .. MAX_GROUPS + MaxNewTags)
InitGroups ==
  /\ RenderManagerInit
  /\ RenderLayerManagerInit /\ RenderMapInit /\ ui = 0
  /\ \E n \in 0 .. MAX_GROUPS :
       /\ tagToBit = [t \in 1 .. n |-> GroupBit(t - 1)]
       /\ bitToTag = [b \in {GroupBit(t - 1) : t \in 1 .. n} |->
                        CHOOSE t \in 1 .. n : GroupBit(t - 1) = b]
       /\ currentBit = n
       /\ groupCall = [tag |-> n, bit |-> IF n = 0 THEN {} ELSE GroupBit(n - 1)]
  /\ objs = [o \in ObjIds |-> Unborn]
  /\ objects = <<>> /\ pendingObjects = <<>> /\ rawPtrObjects = <<>>
  /\ pc = "main" /\ currentState = NULL /\ EngineInit(NULL, NewState)
NextGroups == \E tag \in GroupTags : GetGroupBit(tag)
SpecGroups == InitGroups /\ [][NextGroups]_vars

SingleBits == {GroupBit(n) : n \in 0 .. MAX_GROUPS - 1}
\* C22: every assigned tag holds a single-bit value no other tag holds, the
\* bit a tag holds never changes, and every GetGroupBit call for a tag that
\* holds a bit returns that bit.
C22_BitAssignedOnceAndKept ==
  /\ [](/\ \A t \in DOMAIN tagToBit : tagToBit[t] \in SingleBits
        /\ \A t, u \in DOMAIN tagToBit : tagToBit[t] = tagToBit[u] => t = u
        /\ groupCall.tag \in DOMAIN tagToBit
             => groupCall.bit = tagToBit[groupCall.tag])
  /\ [][/\ \A t \in DOMAIN tagToBit :
             t \in DOMAIN tagToBit' /\ tagToBit'[t] = tagToBit[t]
        /\ \A b \in DOMAIN bitToTag :
             b \in DOMAIN bitToTag' /\ bitToTag'[b] = bitToTag[b]
        /\ (groupCall'.tag \in DOMAIN tagToBit)
             => groupCall'.bit = tagToBit[groupCall'.tag]
       ]_vars
\* tag 1 was asked for again after a later tag got the second bit
C22_Witness ==
  /\ groupCall = [tag |-> 1, bit |-> GroupBit(0)]
  /\ MAX_GROUPS + 1 \in DOMAIN tagToBit /\ tagToBit[MAX_GROUPS + 1] = GroupBit(1)

\* C23: once 32 tags hold a bit, a GetGroupBit call for a tag that holds
\* none returns 0 and changes neither map nor the number of assigned bits.
C23_NoAllocationPast32 ==
  /\ [](Cardinality(DOMAIN tagToBit) <= MAX_GROUPS)
  /\ [][(/\ Cardinality(DOMAIN tagToBit) = MAX_GROUPS
         /\ groupCall'.tag \notin DOMAIN tagToBit)
          => /\ groupCall'.bit = {}
             /\ tagToBit' = tagToBit /\ bitToTag' = bitToTag
             /\ currentBit' = currentBit
       ]_vars
C23_Witness ==
  /\ Cardinality(DOMAIN tagToBit) = MAX_GROUPS
  /\ groupCall = [tag |-> MAX_GROUPS + 1, bit |-> {}]
  /\ MAX_GROUPS + 1 \notin DOMAIN tagToBit

\* --------------------------------------------- collision specification
\* Init: the current state is in its Update hook and holds objects of the
\* kinds the collision pass tells apart; the frames then run, and the
\* OnCollision hooks kill objects
CollObjIds == 1 .. MaxColl
CollisionObject(collider, pos, category, mask) ==
  [ConfiguredObject EXCEPT !.collider = collider, !.pos = pos, !.radius = 20,
                           !.collisionCategory = category, !.collisionMask = mask]
CollisionCases ==
  {CollisionObject(TRUE, <<10, 10>>, GroupBit(0), GroupBit(1)),
   \* same cell as the first, overlapping it
   CollisionObject(TRUE, <<40, 10>>, GroupBit(1), GroupBit(0)),
   CollisionObject(TRUE, <<40, 10>>, GroupBit(2), {}),
   CollisionObject(FALSE, <<40, 10>>, GroupBit(1), GroupBit(0)),
   \* the cell next to the first, overlapping it
   CollisionObject(TRUE, <<0 - 10, 10>>, GroupBit(1), GroupBit(0))}
InitCollision ==
  /\ RenderManagerInit
  /\ RenderLayerManagerInit /\ RenderMapInit /\ ui = 0
  /\ CollisionGroupRegistryInit
  /\ objs \in [CollObjIds -> CollisionCases]
  /\ objects = SeqOfSet(CollObjIds)
  /\ rawPtrObjects = objects
  /\ pendingObjects = <<>>
  /\ pc = "stateUpdate" /\ currentState = 1
  /\ EngineInit(1, Hook(Entered, "Update"))
NextCollision ==
  \/ \E o \in CollObjIds : pc = "computeCollisions" /\ Kill(o)
  \/ RunFrameBegin
  \/ GameStateUpdate
  \/ ObjectUpdate
  \/ UpdateAllTail
  \/ CheckCollision
  \/ ComputeCollisions
  \/ LateUpdate
  \/ FlushDrawCommands
  \/ FrameEnd
SpecCollision == InitCollision /\ [][NextCollision]_vars

\* the objects in the cells of the grid
GridObjects == UNION {Range(grid[c]) : c \in DOMAIN grid}
\* the callback was invoked in the step, with the pair
Reported(a, b) ==
  /\ Len(collisionLog') = Len(collisionLog) + 1
  /\ collisionLog'[Len(collisionLog')] = <<a, b>>
SameCell(a, b) ==
  \A k \in 1 .. 2 : objs[a].pos[k] \div 50 = objs[b].pos[k] \div 50
\* the shapes of a and b overlap
Overlapping(a, b) ==
  (objs[a].pos[1] - objs[b].pos[1]) * (objs[a].pos[1] - objs[b].pos[1])
    + (objs[a].pos[2] - objs[b].pos[2]) * (objs[a].pos[2] - objs[b].pos[2])
    < (objs[a].radius + objs[b].radius) * (objs[a].radius + objs[b].radius)
\* ComputeCollisions has returned
PassDone == pc = "lateUpdate"

\* C24: the callback is invoked only for a pair of alive objects that both
\* have a collider and whose category and mask have a bit in common.
C24_CallbackOnlyForFilteredPairs ==
  [][\A a, b \in DOMAIN objs :
       Reported(a, b)
         => /\ objs[a].isAlive /\ objs[b].isAlive
            /\ objs[a].collider /\ objs[b].collider
            /\ \/ objs[a].collisionCategory \cap objs[b].collisionMask # {}
               \/ objs[b].collisionCategory \cap objs[a].collisionMask # {}
    ]_vars
\* a pass has tested two alive, overlapping objects of one cell whose
\* categories and masks share no bit, and has not reported them
C24_Witness ==
  /\ PassDone
  /\ \E a, b \in GridObjects :
       /\ a # b /\ SameCell(a, b) /\ Overlapping(a, b)
       /\ objs[a].isAlive /\ objs[b].isAlive
       /\ objs[a].collisionCategory \cap objs[b].collisionMask = {}
       /\ objs[b].collisionCategory \cap objs[a].collisionMask = {}
       /\ <<a, b>> \notin Range(collisionLog) /\ <<b, a>> \notin Range(collisionLog)

C26_GridRebuiltEachPass ==
  /\ [](pc = "computeCollisions"
          => \A o \in GridObjects : o \in Range(objects) /\ objs[o].life = "live")
  /\ [][/\ (pc = "collision" /\ pc' # pc)
            => GridObjects' = {o \in Range(objects) : objs[o].collider}
        /\ \A a, b \in DOMAIN objs :
             Reported(a, b) => {a, b} \subseteq Range(objects)
       ]_vars
\* a pass has run after an object that an earlier pass had in the grid was
\* erased
C26_Witness ==
  /\ PassDone
  /\ GridObjects # {}
  /\ \E o \in DOMAIN objs :
       /\ objs[o].life = "erased" /\ objs[o].collider
       /\ objs[o].killedIn = "computeCollisions"

\* ------------------------------------------------ camera specification
\* Init: the current state is in its Update hook, its CameraManager as
\* constructed; content code then registers cameras it has constructed,
\* selects the active camera and sets screen sizes
CameraTags == {"main", "ui"}
CameraPtrs == 1 .. MaxCameras        \* where a Camera2D can be allocated
ScreenSizes == {1, 2}
NextCamera ==
  \/ \E tag \in CameraTags, ptr \in CameraPtrs, size \in ScreenSizes :
       RegisterCamera(tag, Camera2D(ptr, size, size))
  \/ \E tag \in CameraTags : SetActiveCamera(tag)
  \/ \E tag \in CameraTags, size \in ScreenSizes : SetScreenSize(tag, size, size)
  \/ \E size \in ScreenSizes : SetScreenSizeForAll(size, size)
SpecCamera == InitCull /\ [][NextCamera]_vars

\* C27: GetActiveCamera() never returns null, and a SetActiveCamera call
\* with a tag the map has no entry for leaves the active camera unchanged.
C27_ActiveCameraNeverNull ==
  /\ [](GetActiveCamera # NULL)
  /\ [][(cameraCall'.op = "SetActiveCamera" /\ cameraCall'.tag \notin DOMAIN cameraMap)
          => GetActiveCamera' = GetActiveCamera]_vars

\* C28: a SetScreenSize call with a tag the map has no entry for leaves the
\* camera map unchanged.
C28_SetScreenSizeUnregisteredIsNoOp ==
  [][(cameraCall'.op = "SetScreenSize" /\ cameraCall'.tag \notin DOMAIN cameraMap)
       => cameraMap' = cameraMap]_vars

\* ----------------------------------------------- restart specification
\* the frames of SpecFrame, in which the hooks add and kill objects; the
\* state's Update or LateUpdate hook also restarts the state
NextRestart ==
  \/ NextFrame
  \/ Restart
SpecRestart == InitFrame /\ [][NextRestart]_vars

\* the objects the ObjectManager holds
Held == Range(objects) \cup Range(pendingObjects)
\* the step is a call of Restart that finds an object in the manager
RestartStep ==
  /\ pc \in {"stateUpdate", "lateUpdate"} /\ pc' = pc
  /\ \/ objects' # objects
     \/ \E o \in DOMAIN objs : objs'[o].hooks # objs[o].hooks

\* C29: a Restart gives every object the manager holds its Free and then
\* its LateFree, once, and leaves the manager without any object.
C29_FreeAllEmptiesManager ==
  [][RestartStep
       => /\ \A o \in Held : /\ objs'[o].life = "erased"
                             /\ objs'[o].hooks = <<"Free", "LateFree">>
          /\ Held' = {}
    ]_vars

\* the objects the batches of the render map point to
BatchObjects == UNION {{b.batch[i][1] : i \in DOMAIN b.batch} : b \in MapBatches}

C31_RegisteredReferencesRegistered ==
  /\ \A t \in DOMAIN materialMap :
       /\ heap[materialMap[t]].shader \notin freed
       /\ heap[materialMap[t]].textures \cap freed = {}
  /\ \A t \in DOMAIN spritesheetMap : heap[spritesheetMap[t]].texture \notin freed

\* ------------------------------------------------ submit specification
\* Init: the current state is in its Update hook and holds objects of every
\* kind CullVisible tells apart; the frames run, the Draw hook submits the
\* objects, and the Update hook selects cameras and sets screen sizes
NextSubmit ==
  \/ \E tag \in CameraTags : SetActiveCamera(tag)
  \/ \E tag \in CameraTags, size \in ScreenSizes : SetScreenSize(tag, size, size)
  \/ RunFrameBegin
  \/ GameStateUpdate
  \/ ObjectUpdate
  \/ UpdateAllTail
  \/ CheckCollision
  \/ LateUpdate
  \/ DrawAll
  \/ FlushDrawCommands
  \/ FrameEnd
SpecSubmit == InitCull /\ [][NextSubmit]_vars

\* the object is alive and visible, ignores the camera and has a material
\* with a shader, and a mesh
AlwaysDrawable(o) ==
  /\ objs[o].isAlive /\ objs[o].isVisible /\ objs[o].ignoreCamera
  /\ objs[o].material # NULL /\ objs[o].mesh # NULL /\ ShaderOf(o) # NULL

\* C32: after every Submit of the manager's objects, each of them that is
\* alive and visible, ignores the camera and has material, mesh and shader
\* is in a batch of the render map.
C32_IgnoreCameraObjectSubmitted ==
  [][nSubmit' = nSubmit + 1
       => \A o \in Range(rawPtrObjects) : AlwaysDrawable(o) => o \in BatchObjects'
    ]_vars

\* ------------------------------------------- properties of FlushDrawCommands
\* the draw calls the step issues, and those of them for one batch
IssuedCalls == SubSeq(drawLog', Len(drawLog) + 1, Len(drawLog'))
IssuedFor(id) == SelectSeq(IssuedCalls, LAMBDA c : CallIdentity(c) = id)
BatchEntryObjects(b) == [k \in DOMAIN b.batch |-> b.batch[k][1]]
FlushStep == pc = "draw" /\ pc' = "flushed"

\* C33: every (object, camera) entry that is in the render map when
\* FlushDrawCommands starts is drawn exactly once by it: the entries of a
\* batch are the elements of the batch's one instanced call, or are drawn by
\* one call each, and then in the order they were inserted; no call is issued
\* for anything else.
C33_EachEntryDrawnOnce ==
  [][FlushStep =>
       /\ \A b \in MapBatches :
            LET calls == IssuedFor(b.id) IN
            \/ /\ Len(calls) = 1 /\ calls[1].instanced
               /\ calls[1].objs = BatchEntryObjects(b)
            \/ /\ \A k \in DOMAIN calls : ~calls[k].instanced
               /\ Flatten([k \in DOMAIN calls |-> calls[k].objs]) = BatchEntryObjects(b)
       /\ \A i \in DOMAIN IssuedCalls :
            \E b \in MapBatches : b.id = CallIdentity(IssuedCalls[i])
    ]_vars

\* a flush has drawn a batch of two entries by one instanced call and an
\* entry of another batch by a call of its own
C33_Witness ==
  /\ pc = "flushed"
  /\ \E i, j \in DOMAIN drawLog :
       /\ drawLog[i].instanced /\ Len(drawLog[i].objs) = 2
       /\ ~drawLog[j].instanced /\ drawLog[j].objs # <<>>

\* C34: a RegisterMaterial(tag, shaderTag, textureBindings) call that fails
\* because shaderTag is not in the shader registry changes no registry, the
\* shader registry included.
C34_FailedRegisterMaterialChangesNothing ==
  [][\A tag \in RegTags, shaderTag \in UserTags, b \in SUBSET {"a"} :
       (/\ tag \notin DOMAIN materialMap
        /\ shaderTag \notin DOMAIN shaderMap
        /\ RegisterMaterialFromTags(tag, shaderTag, b))
       => regVars' = regVars
    ]_vars

\* C35: after any sequence of RegisterLayer and UnregisterLayer calls no two
\* registered layer names have the same layer id, and the name->ID map and
\* the ID->name array are inverses: the slot of a registered name's id holds
\* that name, and a slot that is in use holds a registered name with that id.
C35_LayerTablesInverse ==
  /\ \A a, b \in DOMAIN nameToID : a # b => nameToID[a] # nameToID[b]
  /\ \A tag \in DOMAIN nameToID : idToName[nameToID[tag]] = tag
  /\ \A id \in Layers :
       idToName[id] # "" => (idToName[id] \in DOMAIN nameToID /\ nameToID[idToName[id]] = id)

\* ------------------------------------------------- phases of one frame
\* Init: the current state is in its Update hook and holds objects that
\* collide with each other and can be drawn; the frames then run, the Draw
\* hook submits the objects, and content code queues debug lines and
\* switches debug draws on and off
PhaseObjIds == 1 .. MaxRenderObj
InitPhases ==
  /\ RenderManagerInit
  /\ RenderLayerManagerInit /\ RenderMapInit /\ ui = 0
  /\ CollisionGroupRegistryInit
  /\ objs = [o \in PhaseObjIds |->
               CollisionObject(TRUE, <<10, 10>>, GroupBit(0), GroupBit(0))]
  /\ objects = SeqOfSet(PhaseObjIds)
  /\ rawPtrObjects = objects
  /\ pendingObjects = <<>>
  /\ pc = "stateUpdate" /\ currentState = 1
  /\ EngineInit(1, Hook(Entered, "Update"))
NextPhases ==
  \/ \E lineWidth \in DebugWidths : DrawDebugLine(MainCamera, lineWidth)
  \/ \E shouldShow \in BOOLEAN : RenderDebugDraws(shouldShow)
  \/ RunFrameBegin
  \/ GameStateUpdate
  \/ ObjectUpdate
  \/ UpdateAllTail
  \/ CheckCollision
  \/ ComputeCollisions
  \/ LateUpdate
  \/ DrawAll
  \/ FlushDrawCommands
  \/ FrameEnd
SpecPhases == InitPhases /\ [][NextPhases]_vars

\* the order in which Run goes through the phases of one iteration
FrameOrder ==
  {<<"loop", "stateUpdate">>, <<"stateUpdate", "updateAll">>,
   <<"updateAll", "collision">>, <<"collision", "computeCollisions">>,
   <<"collision", "lateUpdate">>, <<"computeCollisions", "lateUpdate">>,
   <<"lateUpdate", "draw">>, <<"draw", "flushed">>, <<"flushed", "loop">>}
ObjectUpdated == \E o \in DOMAIN objs : objs'[o].updated /\ ~objs[o].updated
CollisionDispatched == Len(collisionLog') > Len(collisionLog)
DrawSubmitted == Len(submitLog') > Len(submitLog)
DrawsFlushed == Len(drawLog') > Len(drawLog)
DebugLinesFlushed == Len(debugDrawLog') > Len(debugDrawLog)

NextWindow ==
  \/ Run
  \/ FirstState
  \/ BeginTransition
  \/ StateFree
  \/ StateUnload
  \/ StateLoad
  \/ StateInit
  \/ RunFrameBegin
  \/ GameStateUpdate
  \/ UpdateAllTail
  \/ CheckCollision
  \/ LateUpdate
  \/ FlushDrawCommands
  \/ FrameEnd
  \/ \E s \in StateIds : ChangeState(s)
  \/ \E width \in ScreenSizes, height \in ScreenSizes : framebuffer_size_callback(width, height)
  \/ \E tag \in CameraTags, ptr \in CameraPtrs, size \in ScreenSizes :
       pc \in {"stateLoad", "stateInit"} /\ RegisterCamera(tag, Camera2D(ptr, size, size))
SpecWindow == InitEngine /\ [][NextWindow]_vars

\* the current state has been activated: its Load and Init have returned
\* and StateManager::Update has gone on
Activated == currentState # NULL /\ pc \notin {"stateLoad", "stateInit"}

Releases == {"soundManager.Free", "windowManager.Free", "Free"}
\* C38: during shutdown, while the Free and Unload hooks of the current
\* state run, and while its objects are freed, Run has released neither the
\* sound system nor the window nor the graphics context.
C38_HooksRunBeforeReleases ==
  pc \in ShutdownPhases => Range(shutdownLog) \cap Releases = {}

====
